---- MODULE Spec2Model ----
(***************************************************************************)
(* Model of the ingestion core of alert_framework:                         *)
(*   - worker/ingest.py : run_watcher (polling loop) and process_file      *)
(*   - core/store.py    : content-addressed store of call records          *)
(*   - caad_skillkit/ai : the transcription stage as seen by process_file  *)
(* The watched directory is shared with an external writer, whose writes   *)
(* and removals interleave with every step of the watcher.                 *)
(*                                                                         *)
(* Spec is the watcher with its pipeline.  LibSpec exercises the functions *)
(* the pipeline is built from, each on inputs drawn from bounded sets:     *)
(*   - caad_skillkit/ai/jsonio.py, rollups.py : parse_first_json_object    *)
(*     and build_metadata on a chat completion                             *)
(*   - core/store.py : call_id_from_audio on the bytes of two files, and   *)
(*     write_call_record step by step beside a concurrent reader, and      *)
(*     read_call on the record file it finds                               *)
(*   - caad_skillkit/ai/clients.py : the request loop of _post             *)
(*   - worker/ingest.py : the error record the handlers of process_file    *)
(*     build from the message of an exception                              *)
(*   - worker/ingest.py : the filter of run_watcher on a directory entry   *)
(***************************************************************************)
EXTENDS Integers, Sequences, FiniteSets, TLC

(* ------------------------------ bounds --------------------------------- *)

\* raw values of STABLE_POLLS range over 0..MaxStablePolls
MaxStablePolls == 2

\* file contents (byte strings) are 1..NumContents
NumContents == 3

\* events from outside the watcher (a write or a removal by the external writer,
\* a restart of the process) happen at most MaxExternalOps times
MaxExternalOps == 2

\* a chat completion has at most MaxTextLen characters
MaxTextLen == 6

\* an audio file has at most MaxFileLen bytes
MaxFileLen == 3

\* the file is read in chunks of 1 .. MaxChunk bytes
MaxChunk == 2

\* the JSON text of a document reaches the disk in DocChunks pieces
DocChunks == 2

\* the message of an exception has at most MaxMessageLen characters
MaxMessageLen == 242

\* the name of a directory entry has at most MaxNameLen parts
MaxNameLen == 5

\* /api/calls returns at most MaxCalls calls to a briefing
MaxCalls == 4

\* each caller of the legacy job queue asks at most MaxRequests times
MaxRequests == 2

\* wait_for_complete is called with max_wait of at most MaxWaitChecks intervals
MaxWaitChecks == 4

\* a documentation file holds at most MaxDocLen pieces of text before the run
MaxDocLen == 4

(* ------------------------------ domains -------------------------------- *)

Paths == {"a.wav", "b.wav"}

Contents == 1..NumContents

Absent == 0

\* what the watched directory may hold when the watcher starts
InitialDirs ==
    {[p \in Paths |-> Absent],
     [p \in Paths |-> IF p = "a.wav" THEN 1 ELSE Absent]}

\* contents that may already have a call_record.json when the watcher starts
PriorContents == {1}

\* st_size of a file holding content c: sizes 1, 2, 2, 3, 3, ... so that contents
\* differ in size and, from the third on, may also share one
SizeOf(c) == (c + 2) \div 2

\* raw values of INGEST_COPY_MODE
RawModes == {"", "copy", "move", "MOVE", "link"}

Lower(s) == IF s = "MOVE" THEN "move" ELSE s

\* a variant that compares the value as given, without value.lower()
_normalize_mode_caseSensitive(value) ==
    IF value \notin {"copy", "move"} THEN "copy" ELSE value

_normalize_mode(value) ==
    IF value = "" THEN "copy"
    ELSE IF Lower(value) \notin {"copy", "move"} THEN "copy"
    ELSE Lower(value)

\* stable_polls = int(STABLE_POLLS or "2"); if stable_polls < 1: stable_polls = 1
CoercePolls(raw) == IF raw < 1 THEN 1 ELSE raw

\* sha256 of the bytes: one digest per content
call_id_from_audio(c) == <<"sha256", c>>

CallIds == {call_id_from_audio(c) : c \in Contents}

\* the file calls/<id>/call_record.json: missing, not JSON, or a record
NoRecord == [id |-> <<>>, status |-> "none", original_filename |-> "", error |-> ""]

Corrupt == [id |-> <<>>, status |-> "corrupt", original_filename |-> "", error |-> ""]

\* a variant that writes the status of a failure as "failed"
_call_record_template_failed(call_id, original_filename, status, error) ==
    [id |-> call_id, status |-> IF status = "error" THEN "failed" ELSE status,
     original_filename |-> original_filename, error |-> error]

_call_record_template(call_id, original_filename, status, error) ==
    [id |-> call_id, status |-> status, original_filename |-> original_filename,
     error |-> error]

\* records left in the store by an earlier run
PriorRecords(id) ==
    {NoRecord, Corrupt,
     _call_record_template(id, "old.wav", "complete", ""),
     _call_record_template(id, "old.wav", "error", "earlier failure")}

IsRecord(r) == r.status \notin {"none", "corrupt"}

\* _emit_event(event, payload): the line printed, of which the model keeps the
\* event and the path ("" for an event that names none)
Event(name, path) == [event |-> name, path |-> path]

\* entry of the watcher's processed dict
NoEntry == [status |-> "none", size |-> 0]

VARIABLES
    fs,               \* watched directory: path -> content or Absent
    record,           \* store: call id -> call_record.json
    artifacts,        \* store: call id -> artifact files present
    audio,            \* store: call id -> file names under audio/
    stable_polls,     \* run_watcher: effective threshold
    ingest_mode,      \* run_watcher: "copy" or "move"
    size_history,     \* run_watcher: path -> deque of sizes
    processed,        \* run_watcher: path -> outcome entry
    todo,             \* run_watcher: entries of this cycle's listing not yet visited
    pc,               \* position of the watcher process
    cur,              \* entry being processed
    cur_size,         \* stat.st_size taken for cur
    handle,           \* call_id_from_audio: content of the file it has open, or Absent
    call_id,          \* process_file: call id of the call in flight
    stage_out,        \* process_file: outcome of the transcription stage
    err,              \* process_file: message of the caught exception
    result,           \* record returned by process_file
    exc,              \* exception that escaped run_watcher
    pf_prior,         \* history: record found at the entry of the call in flight
    pf_effects,       \* history: effects of the call in flight
    last_seen,        \* history: path -> size seen by the latest polling cycle, or 0
    streak,           \* history: path -> latest cycles in a row that saw the same size
    growth,           \* history: path -> how its size moved from poll to poll
    held_at_return,   \* history: path -> content it held when its last call returned
    fresh,            \* history: path -> sizes appended since its eviction, or 0
    eligible_emitted, \* run_watcher: paths whose detected event was emitted
    events,           \* the events this run of the watcher has printed, in order
    prev_run,         \* history: how the previous run of the watcher ended
    ext_ops           \* number of outside events so far (writes, removals, restarts)

mainVars == <<fs, record, artifacts, audio, stable_polls, ingest_mode, size_history,
          processed, todo, pc, cur, cur_size, handle, call_id, stage_out,
          err, result, exc, pf_prior, pf_effects, last_seen, streak, growth,
          held_at_return, fresh, eligible_emitted, events, prev_run, ext_ops>>

VARIABLES
    lib_task,         \* which function LibSpec exercises; "none" under Spec
    backend,          \* build_metadata: AI_BACKEND
    content,          \* build_metadata: text of the chat completion
    parsed,           \* outcome of parse_first_json_object(content)
    built,            \* outcome of build_metadata
    hash_in,          \* call_id_from_audio: the two files hashed
    hash_out,         \* call_id_from_audio: their call ids
    disk,             \* store directory of one call: file name -> content
    w_pc,             \* position of the writer inside write_call_record
    w_call,           \* the store function called last and its payload
    w_out,            \* how that call ended
    seen,             \* what the reader got from its last read of a store file
    p_pc,             \* position inside _post
    attempt,          \* _post: the loop variable
    sent,             \* requests.post calls made by this call of _post
    p_out,            \* how _post ended
    exc_message,      \* str(err) of the exception a handler of process_file caught
    error_rec,        \* the record that handler hands to write_call_record
    entry,            \* a directory entry of the listing: its kind and its name
    visit_out,        \* what the loop body of run_watcher did with that entry
    looked,           \* read_call: the record file it found and how it ended
    call_dir,         \* a call directory at rest: file name -> content
    served,           \* what a read path handed to its consumer last
    brief_in,         \* AlertsClient.briefing: replies of /ops/status and /api/calls
    brief_out,        \* AlertsClient.briefing: the value returned
    job_row,          \* alertframework: status of the file's row in transcriptions, or "none"
    caller,           \* alertframework: thread -> position in its request, requests made
    pool,             \* alertframework: EXECUTOR's transcribe_worker jobs for the file
    wait,             \* wait_for_complete: its local variables and what it returned
    stats,            \* history: what the checks of wait_for_complete saw, in order
    doc               \* docs generator: a documentation file before, after docs_all, as docs_validate sees it

libVars == <<lib_task, backend, content, parsed, built, hash_in, hash_out, disk,
             w_pc, w_call, w_out, seen, p_pc, attempt, sent, p_out, exc_message,
             error_rec, entry, visit_out, looked, call_dir, served,
             brief_in, brief_out,
             job_row, caller, pool,
             wait, stats,
             doc>>

vars == <<mainVars, libVars>>

storeVars == <<record, artifacts, audio>>

configVars == <<stable_polls, ingest_mode>>

\* what no step of a run changes
runVars == <<stable_polls, ingest_mode, prev_run, libVars>>

watchVars == <<size_history, processed, todo>>

callVars == <<cur, cur_size, handle, call_id, stage_out, err, result, pf_prior, pf_effects>>

histVars == <<last_seen, streak, growth, held_at_return, fresh, eligible_emitted, events>>

NoCall == <<>>

\* this is the first run of the watcher
FirstRun == <<"none", NoCall>>

\* the watcher's dictionaries and the history kept about them, when empty
WatcherMemoryEmpty ==
    /\ size_history' = [p \in Paths |-> <<>>]
    /\ processed' = [p \in Paths |-> NoEntry]
    /\ todo' = {}
    /\ last_seen' = [p \in Paths |-> 0]
    /\ streak' = [p \in Paths |-> 0]
    /\ growth' = [p \in Paths |-> "unseen"]
    /\ held_at_return' = [p \in Paths |-> Absent]
    /\ fresh' = [p \in Paths |-> 0]
    /\ eligible_emitted' = {}

(* --------------------- values of the library variables ----------------- *)

\* the files of one call directory of the store
StoreFiles == {"call_record.json", "call_record.json.tmp", "metadata.json"}

\* a file that does not exist; an existing file holds the first `len` pieces of
\* the JSON text of `doc`
NoFile == [doc |-> NoRecord, len |-> 0]

\* parse_first_json_object, build_metadata not called yet
NotParsed == [out |-> "", value |-> <<>>]

\* no store function called yet
NotCalled == [fn |-> "", payload |-> NoRecord]

\* the reader has read nothing yet; `at` is the writer's position at the read
NothingRead == [file |-> "", content |-> NoFile, at |-> ""]

\* read_call not called yet
NotLooked == [file |-> NoFile, out |-> "", record |-> NoRecord]

\* the inputs and results of each group of library functions, not in use
ParseIdle ==
    /\ backend = "stub"
    /\ content = <<>>
    /\ parsed = NotParsed
    /\ built = NotParsed

HashIdle ==
    /\ hash_in = <<>>
    /\ hash_out = <<>>

StoreIdle ==
    /\ disk = [f \in StoreFiles |-> NoFile]
    /\ w_pc = "idle"
    /\ w_call = NotCalled
    /\ w_out = ""
    /\ seen = NothingRead
    /\ looked = NotLooked

ChatIdle ==
    /\ p_pc = "idle"
    /\ attempt = 0
    /\ sent = 0
    /\ p_out = ""

\* the loop body has not run on the entry
NotVisited == [visited |-> FALSE, history |-> <<>>, submitted |-> FALSE]

FilterIdle ==
    /\ entry = [kind |-> "", name |-> <<>>]
    /\ visit_out = NotVisited

ErrIdle ==
    /\ exc_message = <<>>
    /\ error_rec = NoRecord

\* the files a read path looks at
ServedFiles == {"call_record.json", "metadata.json"}

\* no read path called yet
NotServed == [via |-> "", name |-> "", file |-> NoFile, out |-> "", payload |-> NoRecord]

ServeIdle ==
    /\ call_dir = [f \in ServedFiles |-> NoFile]
    /\ served = NotServed

\* _summarize of an empty list; briefing not called yet
NoCallsSummary == [text |-> "No calls in window.", calls |-> 0, top_tags |-> <<>>,
                   top_locations |-> <<>>]

NotBriefed == [status |-> "", calls |-> <<>>, summary |-> NoCallsSummary]

BriefIdle ==
    /\ brief_in = [status |-> "", calls |-> <<>>]
    /\ brief_out = NotBriefed

\* the threads that call ensure_transcription_queued: watcher_loop and the
\* requests of /api/transcription/{file_name}
Callers == {"watcher", "api"}

QueueIdle ==
    /\ job_row = "none"
    /\ caller = [c \in Callers |-> [pc |-> "idle", made |-> 0]]
    /\ pool = [queued |-> 0, running |-> 0]

\* wait_for_complete not called: elapsed is counted in intervals, limit is
\* max_wait in intervals
WaitIdle ==
    /\ wait = [limit |-> 0, elapsed |-> 0, last_size |-> -1, stable_count |-> 0,
               out |-> ""]
    /\ stats = <<>>

\* the docs generator not run
DocIdle == doc = [existing |-> <<>>, once |-> <<>>, twice |-> <<>>, out |-> ""]

CoreIdle ==
    /\ ParseIdle
    /\ HashIdle
    /\ StoreIdle
    /\ ChatIdle
    /\ ErrIdle
    /\ FilterIdle

MoreIdle ==
    /\ ServeIdle
    /\ BriefIdle
    /\ QueueIdle
    /\ WaitIdle
    /\ DocIdle

parseVars == <<backend, content, parsed, built>>
hashVars == <<hash_in, hash_out>>
diskVars == <<disk, w_pc, w_call, w_out, seen>>
chatVars == <<p_pc, attempt, sent, p_out>>
errVars == <<exc_message, error_rec>>
filterVars == <<entry, visit_out>>
serveVars == <<call_dir, served>>
briefVars == <<brief_in, brief_out>>
queueVars == <<job_row, caller, pool>>
waitVars == <<wait, stats>>
docVars == <<doc>>

\* the variables of the library functions above
coreLibVars == <<looked, parseVars, hashVars, diskVars, chatVars, errVars, filterVars>>

\* the variables of the read paths and of the components beside the worker
moreVars == <<serveVars, briefVars, queueVars, waitVars, docVars>>

\* the library variables under Spec, which does not use them
LibIdle ==
    /\ lib_task = "none"
    /\ MoreIdle
    /\ ParseIdle
    /\ HashIdle
    /\ StoreIdle
    /\ ChatIdle
    /\ ErrIdle
    /\ FilterIdle

Init ==
    /\ LibIdle
    /\ fs \in InitialDirs
    /\ record \in [CallIds -> UNION {PriorRecords(i) : i \in CallIds}]
    /\ \A c \in Contents :
          record[call_id_from_audio(c)] \in
             IF c \in PriorContents THEN PriorRecords(call_id_from_audio(c))
             ELSE {NoRecord}
    /\ artifacts = [i \in CallIds |->
                      IF record[i].status = "complete"
                      THEN {"transcript", "metadata", "rollup"} ELSE {}]
    /\ audio = [i \in CallIds |-> IF IsRecord(record[i]) THEN {"old.wav"} ELSE {}]
    /\ \E raw \in 0..MaxStablePolls : stable_polls = CoercePolls(raw)
    /\ \E raw \in RawModes : ingest_mode = _normalize_mode(raw)
    /\ size_history = [p \in Paths |-> <<>>]
    /\ processed = [p \in Paths |-> NoEntry]
    /\ todo = {}
    /\ pc = "visit"
    /\ cur = ""
    /\ cur_size = 0
    /\ handle = Absent
    /\ call_id = NoCall
    /\ stage_out = ""
    /\ err = ""
    /\ result = NoRecord
    /\ exc = ""
    /\ pf_prior = NoRecord
    /\ pf_effects = {}
    /\ last_seen = [p \in Paths |-> 0]
    /\ streak = [p \in Paths |-> 0]
    /\ growth = [p \in Paths |-> "unseen"]
    /\ held_at_return = [p \in Paths |-> Absent]
    /\ fresh = [p \in Paths |-> 0]
    /\ eligible_emitted = {}
    /\ events = <<Event("watch_start", "")>>
    /\ prev_run = FirstRun
    /\ ext_ops = 0

(* --------------------------- external writer --------------------------- *)

Running == pc \notin {"crashed", "stopped", "killed"}

\* The writer runs concurrently with the watcher.  Its actions are interleaved
\* before each step of the watcher that reads the directory (the listing, a stat,
\* the opening and the reading of the source, the transfer); the other steps do not look at the directory, so a
\* write during them is the same as a write right after them.
ReadsDirectoryNext == pc \in {"visit", "resolve", "hash", "transfer"}

\* an external process creates or rewrites a file of the watched directory
ExternalWrite(p, c) ==
    /\ ReadsDirectoryNext
    /\ ext_ops < MaxExternalOps
    /\ fs[p] # c
    /\ fs' = [fs EXCEPT ![p] = c]
    /\ ext_ops' = ext_ops + 1
    /\ UNCHANGED <<storeVars, runVars, watchVars, pc, callVars, exc, histVars>>

\* an external process removes a file of the watched directory
ExternalRemove(p) ==
    /\ ReadsDirectoryNext
    /\ ext_ops < MaxExternalOps
    /\ fs[p] # Absent
    /\ fs' = [fs EXCEPT ![p] = Absent]
    /\ ext_ops' = ext_ops + 1
    /\ UNCHANGED <<storeVars, runVars, watchVars, pc, callVars, exc, histVars>>

(* ------------------------------ run_watcher ---------------------------- *)

\* a variant that announces the path at every submission
Detected_always(p, emitted) == <<Event("detected", p)>>

\* lines 221-223: detected, once for a path
Detected(p, emitted) == IF p \notin emitted THEN <<Event("detected", p)>> ELSE <<>>

\* a variant whose full window refuses the new size
Push_keepsOldest(h, x, n) == IF Len(h) < n THEN Append(h, x) ELSE h

\* deque(maxlen=n).append(x)
Push(h, x, n) == IF Len(h) < n THEN Append(h, x) ELSE Append(Tail(h), x)

\* a variant that forgets to compare the sizes of the window
NotStable_lengthOnly(h, n) == Len(h) < n

\* len(history) < stable_polls or len(set(history)) != 1
NotStable(h, n) == Len(h) < n \/ Cardinality({h[i] : i \in 1..Len(h)}) # 1

\* a variant that evicts on a size change whatever the recorded status
MustEvict_anyStatus(prev, size) == prev.size # size

\* a variant with the comparison of the sizes inverted
MustEvict_sameSize(prev, size) == prev.status = "error" /\ prev.size = size

\* prev.get("status") == "error" and prev.get("size") != stat.st_size
MustEvict(prev, size) == prev.status = "error" /\ prev.size # size

\* entry in processed and not evicted: continue
Skips(prev, size) == prev # NoEntry /\ ~MustEvict(prev, size)

\* how the size of a path moved, given the previous cycle's observation
Grow(g, last, size) ==
    IF last = 0 THEN "once"
    ELSE IF size > last /\ g \in {"once", "growing"} THEN "growing"
    ELSE "settled"

\* cycles in a row, this one included, that saw the path present with `size`
Streak(k, last, size, n) ==
    IF k > 0 /\ last = size THEN (IF k < n THEN k + 1 ELSE n) ELSE 1

\* sizes appended to the history of a path since the poll that evicted it, that
\* poll's included (counted up to the threshold); 0 for a path never evicted
\* since its last call
Appended(k, prev) ==
    IF prev # NoEntry THEN 1
    ELSE IF k = 0 THEN 0
    ELSE IF k < stable_polls THEN k + 1 ELSE k

\* a polling cycle found the path missing
Missed(p) ==
    /\ last_seen' = [last_seen EXCEPT ![p] = 0]
    /\ streak' = [streak EXCEPT ![p] = 0]
    /\ growth' = [growth EXCEPT ![p] = "unseen"]

\* a polling cycle found the path with `size`
Seen(p, size) ==
    /\ last_seen' = [last_seen EXCEPT ![p] = size]
    /\ streak' = [streak EXCEPT ![p] = Streak(@, last_seen[p], size, stable_polls)]
    /\ growth' = [growth EXCEPT ![p] = Grow(@, last_seen[p], size)]

\* time.sleep(poll_s), then calls_dir.iterdir() of the next cycle
PollCycle ==
    /\ pc = "visit"
    /\ todo = {}
    /\ todo' = {p \in Paths : fs[p] # Absent}
    /\ last_seen' = [p \in Paths |-> IF fs[p] = Absent THEN 0 ELSE last_seen[p]]
    /\ streak' = [p \in Paths |-> IF fs[p] = Absent THEN 0 ELSE streak[p]]
    /\ growth' = [p \in Paths |-> IF fs[p] = Absent THEN "unseen" ELSE growth[p]]
    /\ UNCHANGED <<fs, storeVars, runVars, size_history, processed, pc,
                   callVars, exc, held_at_return, fresh, eligible_emitted, events, ext_ops>>

\* one iteration of the for loop over the listing (lines 195-226)
VisitEntry(p) ==
    /\ pc = "visit"
    /\ p \in todo
    /\ todo' = todo \ {p}
    /\ IF fs[p] = Absent
       THEN \* is_file() is false, or stat() raises FileNotFoundError
            /\ Missed(p)
            /\ UNCHANGED <<size_history, processed, pc, cur, cur_size, handle, fresh,
                           eligible_emitted, events>>
       ELSE LET size == SizeOf(fs[p])
                h == Push(size_history[p], size, stable_polls)
            IN  /\ Seen(p, size)
                /\ IF Skips(processed[p], size)
                   THEN UNCHANGED <<size_history, processed, pc, cur, cur_size, handle, fresh,
                                    eligible_emitted, events>>
                   ELSE /\ processed' = [processed EXCEPT ![p] = NoEntry]
                        /\ size_history' = [size_history EXCEPT ![p] = h]
                        /\ fresh' = [fresh EXCEPT ![p] = Appended(@, processed[p])]
                        /\ IF NotStable(h, stable_polls)
                           THEN UNCHANGED <<pc, cur, cur_size, handle, eligible_emitted, events>>
                           ELSE \* lines 221-226: the events, then
                                \* process_file(entry, calls_dir, ingest_mode)
                                /\ events' = events \o Detected(p, eligible_emitted)
                                                    \o <<Event("processing", p)>>
                                /\ eligible_emitted' = eligible_emitted \cup {p}
                                /\ pc' = "resolve"
                                /\ cur' = p
                                /\ cur_size' = size
                                /\ handle' = Absent
    /\ UNCHANGED <<fs, storeVars, runVars, call_id, stage_out, err, result, exc,
                   pf_prior, pf_effects, held_at_return, ext_ops>>

(* ------------------------------ process_file --------------------------- *)

InCall == pc \in {"resolve", "hash", "transfer", "transcribe", "persist_transcript",
                  "record_error", "return"}

\* an exception leaves process_file and then run_watcher, which catches only
\* KeyboardInterrupt: the process ends and its dictionaries are gone; the call id,
\* the stage outcome and the effects of the interrupted call are kept as history
Raise(e) ==
    /\ pc' = "crashed"
    /\ exc' = e
    /\ WatcherMemoryEmpty
    /\ UNCHANGED events
    /\ cur' = ""
    /\ cur_size' = 0
    /\ handle' = Absent
    /\ err' = ""
    /\ result' = NoRecord
    /\ pf_prior' = NoRecord

\* a variant that returns without having written the record file
write_call_record_notPersisted(r) ==
    /\ record' = record
    /\ pf_effects' = pf_effects \cup {"record"}

\* store.write_call_record(record): validation, then write and rename
write_call_record(r) ==
    /\ record' = [record EXCEPT ![r.id] = r]
    /\ pf_effects' = pf_effects \cup {"record"}

\* a variant that never takes the record file as a marker
HasRecord_never(id) == FALSE

\* a variant that takes any existing record file, parsable or not, as the marker
HasRecord_anyFile(id) == record[id] # NoRecord

\* a variant that reprocesses the content of an error record
HasRecord_retryErrors(id) == record[id].status \notin {"none", "corrupt", "error"}

\* a variant that takes only a complete record as the processed marker
HasRecord_completeOnly(id) == record[id].status = "complete"

\* record_path.exists() and json.loads succeeds (lines 97-101)
HasRecord(id) == record[id] # NoRecord /\ record[id] # Corrupt

\* what a missing source raises: WorkerError of line 92 if it is missing at
\* file_path.exists(); StoreError of call_id_from_audio (store.py 48) if it goes
\* after that; FileNotFoundError of file_path.open (store.py 50) if it goes
\* between the two checks and the open
NotFoundErrors == {"WorkerError", "StoreError: audio file not found", "FileNotFoundError"}

\* lines 90-94 and store.py 46-50: resolve the path, see that it exists, open it
Resolve ==
    /\ pc = "resolve"
    /\ IF fs[cur] = Absent
       THEN \* raise WorkerError("file not found"), or the error of the store
            \E e \in NotFoundErrors : Raise(e)
       ELSE /\ handle' = fs[cur]
            /\ pc' = "hash"
            /\ UNCHANGED <<watchVars, cur, cur_size, err, result, exc, pf_prior,
                           histVars>>
    /\ UNCHANGED <<fs, storeVars, runVars, call_id, stage_out, pf_effects, ext_ops>>

\* what the open file gives to read: the content of the path, or, the path
\* having been removed since the open, the content it was opened with
ReadOpenFile == IF fs[cur] = Absent THEN handle ELSE fs[cur]

\* store.py 51-53 and lines 95-101: read the file to its end, take the digest,
\* look for an existing record
Hash ==
    /\ pc = "hash"
    /\ LET id == call_id_from_audio(ReadOpenFile)
       IN  /\ call_id' = id
           /\ pf_prior' = record[id]
           /\ IF HasRecord(id)
              THEN \* return json.loads(record_path.read_text())
                   pc' = "return" /\ result' = record[id]
              ELSE pc' = "transfer" /\ UNCHANGED result
    /\ handle' = Absent
    /\ UNCHANGED <<fs, storeVars, runVars, watchVars, cur, cur_size, err, exc,
                   stage_out, pf_effects, histVars, ext_ops>>

\* lines 103-130: copy or move the source into calls/<id>/audio/
Transfer ==
    /\ pc = "transfer"
    /\ \E ok \in {fs[cur] # Absent} \cup {FALSE} :
          IF ok
          THEN /\ audio' = [audio EXCEPT ![call_id] = @ \cup {cur}]
               /\ fs' = IF _normalize_mode(ingest_mode) = "move"
                        THEN [fs EXCEPT ![cur] = Absent] ELSE fs
               /\ pf_effects' = pf_effects \cup {"transfer"}
               /\ pc' = "transcribe"
               /\ UNCHANGED err
          ELSE \* except Exception as err
               /\ err' = "transfer failed"
               /\ pc' = "record_error"
               /\ UNCHANGED <<fs, audio, pf_effects>>
    /\ UNCHANGED <<record, artifacts, runVars, watchVars, cur, cur_size, handle, call_id,
                   stage_out, result, exc, pf_prior, histVars, ext_ops>>

\* what transcribe_audio(dest) and _validate_payload do:
\*   "ok"              a payload that validates
\*   "TranscribeError" unsupported backend, missing key, missing file, bad payload
\*   "HTTPError"       requests / SDK exception of the backend call
StageOutcomes == {"ok", "TranscribeError", "HTTPError"}

\* the exceptions process_file catches around the stages (line 157)
Caught == {"SkillError", "TranscribeError", "WorkerError", "ValidationError"}

\* lines 133-134: transcript = transcribe_audio(...); _validate_payload(...)
Transcribe ==
    /\ pc = "transcribe"
    /\ pf_effects' = pf_effects \cup {"transcribe"}
    /\ \E out \in StageOutcomes :
          /\ stage_out' = out
          /\ IF out = "ok"
             THEN /\ pc' = "persist_transcript"
                  /\ UNCHANGED <<watchVars, cur, cur_size, handle, err, result, exc, pf_prior,
                                 histVars>>
             ELSE IF out \in Caught
             THEN /\ pc' = "record_error"
                  /\ err' = "transcribe failed"
                  /\ UNCHANGED <<watchVars, cur, cur_size, handle, result, exc, pf_prior,
                                 histVars>>
             ELSE Raise(out)
    /\ UNCHANGED <<fs, storeVars, runVars, call_id, ext_ops>>

\* line 135: store.write_json_atomic(...); core/store.py defines no such
\* attribute, so the call raises AttributeError, which line 157 does not catch
PersistTranscript ==
    /\ pc = "persist_transcript"
    /\ Raise("AttributeError")
    /\ UNCHANGED <<fs, storeVars, runVars, call_id, stage_out, pf_effects, ext_ops>>

\* lines 116-130 and 157-171: the handler persists an error record and returns it;
\* the write itself may fail (StoreError of _load_contract, OSError of the write)
RecordError ==
    /\ pc = "record_error"
    /\ \E ok \in BOOLEAN :
          IF ok
          THEN LET r == _call_record_template(call_id, cur, "error", err)
               IN  /\ write_call_record(r)
                   /\ result' = r
                   /\ pc' = "return"
                   /\ UNCHANGED <<watchVars, cur, cur_size, handle, err, exc, pf_prior,
                                  histVars>>
          ELSE /\ Raise("StoreError")
               /\ UNCHANGED <<record, pf_effects>>
    /\ UNCHANGED <<fs, artifacts, audio, runVars, call_id, stage_out, ext_ops>>

\* lines 227-231: the call has returned; note the outcome and go on with the listing
Return ==
    /\ pc = "return"
    /\ processed' = [processed EXCEPT
                       ![cur] = [status |-> result.status, size |-> cur_size]]
    /\ pc' = "visit"
    /\ cur' = ""
    /\ cur_size' = 0
    /\ handle' = Absent
    /\ call_id' = NoCall
    /\ stage_out' = ""
    /\ err' = ""
    /\ result' = NoRecord
    /\ pf_prior' = NoRecord
    /\ pf_effects' = {}
    /\ streak' = [streak EXCEPT ![cur] = 0]
    /\ held_at_return' = [held_at_return EXCEPT ![cur] = fs[cur]]
    /\ fresh' = [fresh EXCEPT ![cur] = 0]
    /\ events' = Append(events, Event(IF result.status = "complete" THEN "complete"
                                      ELSE "error", ""))
    /\ UNCHANGED <<fs, storeVars, runVars, size_history, todo, exc, last_seen,
                   growth, eligible_emitted, ext_ops>>

\* lines 234-235: KeyboardInterrupt ends the loop and the process
Interrupt ==
    /\ Running
    /\ pc' = "stopped"
    /\ WatcherMemoryEmpty
    /\ events' = Append(events, Event("shutdown", ""))
    /\ cur' = ""
    /\ cur_size' = 0
    /\ handle' = Absent
    /\ call_id' = NoCall
    /\ stage_out' = ""
    /\ err' = ""
    /\ result' = NoRecord
    /\ pf_prior' = NoRecord
    /\ pf_effects' = {}
    /\ UNCHANGED <<fs, storeVars, runVars, exc, ext_ops>>

\* the process is killed in the middle of a call of process_file, before the call
\* has written or returned a record; the call id is kept as history
Kill ==
    /\ InCall
    /\ pc # "return"
    /\ pc' = "killed"
    /\ WatcherMemoryEmpty
    /\ UNCHANGED events
    /\ cur' = ""
    /\ cur_size' = 0
    /\ handle' = Absent
    /\ err' = ""
    /\ result' = NoRecord
    /\ pf_prior' = NoRecord
    /\ UNCHANGED <<fs, storeVars, runVars, call_id, stage_out, exc, pf_effects,
                   ext_ops>>

\* run_watcher is started again after the process ended: lines 178-189 build the
\* configuration from the same environment and empty dictionaries; the store and
\* the watched directory are what the previous run left
Restart ==
    /\ ~Running
    /\ ext_ops < MaxExternalOps
    /\ ext_ops' = ext_ops + 1
    /\ pc' = "visit"
    /\ prev_run' = IF pc = "killed" THEN <<"killed", call_id>> ELSE <<"ended", NoCall>>
    /\ call_id' = NoCall
    /\ stage_out' = ""
    /\ pf_effects' = {}
    /\ exc' = ""
    /\ events' = <<Event("watch_start", "")>>
    /\ UNCHANGED <<fs, storeVars, configVars, watchVars, cur, cur_size, handle, err, result,
                   pf_prior, last_seen, streak, growth, held_at_return, fresh,
                   eligible_emitted, libVars>>

Next ==
    \/ \E p \in Paths, c \in Contents : ExternalWrite(p, c)
    \/ \E p \in Paths : ExternalRemove(p)
    \/ PollCycle
    \/ \E p \in Paths : VisitEntry(p)
    \/ Resolve
    \/ Hash
    \/ Transfer
    \/ Transcribe
    \/ PersistTranscript
    \/ RecordError
    \/ Return
    \/ Interrupt
    \/ Kill
    \/ Restart

Spec == Init /\ [][Next]_vars

(* ================== the functions the pipeline is built from ============ *)

\* the watcher's variables under LibSpec, which does not run the watcher
MainIdle ==
    /\ fs = [p \in Paths |-> Absent]
    /\ record = [i \in CallIds |-> NoRecord]
    /\ artifacts = [i \in CallIds |-> {}]
    /\ audio = [i \in CallIds |-> {}]
    /\ stable_polls = CoercePolls(0)
    /\ ingest_mode = _normalize_mode("")
    /\ size_history = [p \in Paths |-> <<>>]
    /\ processed = [p \in Paths |-> NoEntry]
    /\ todo = {}
    /\ pc = "stopped"
    /\ cur = ""
    /\ cur_size = 0
    /\ handle = Absent
    /\ call_id = NoCall
    /\ stage_out = ""
    /\ err = ""
    /\ result = NoRecord
    /\ exc = ""
    /\ pf_prior = NoRecord
    /\ pf_effects = {}
    /\ last_seen = [p \in Paths |-> 0]
    /\ streak = [p \in Paths |-> 0]
    /\ growth = [p \in Paths |-> "unseen"]
    /\ held_at_return = [p \in Paths |-> Absent]
    /\ fresh = [p \in Paths |-> 0]
    /\ eligible_emitted = {}
    /\ events = <<>>
    /\ prev_run = FirstRun
    /\ ext_ops = 0

(* ------------------------------- jsonio.py ------------------------------ *)

\* The characters of a completion, as far as jsonio.py and the shape of a JSON
\* object tell them apart: the braces, the double quote, "<fence>" for a code
\* fence (three backquotes with or without "json") and "x" for any other character.  In a JSON text the colons
\* and commas are left out: an object is "{", then keys (strings) each followed
\* by a value, then "}"; a value is an object, a string or the scalar "x".
Chars == {"{", "}", "\"", "<fence>", "x"}

Texts == UNION {[1..n -> Chars] : n \in 0..MaxTextLen}

\* Python's None, where a text is expected
None == <<"None">>

Range(t) == {t[i] : i \in 1..Len(t)}

\* CODE_FENCE_RE.sub("", text).strip()  (no text here has white space)
strip_code_fences(text) == SelectSeq(text, LAMBDA ch : ch # "<fence>")

\* text.find(ch) counted from 1, 0 when absent
Find(text, ch) ==
    IF ch \in Range(text)
    THEN CHOOSE i \in 1..Len(text) : text[i] = ch /\ \A j \in 1..(i - 1) : text[j] # ch
    ELSE 0

\* the for loop of extract_first_json_object: the index of the "}" that brings
\* depth back to 0, or 0 when the text ends first
RECURSIVE ScanDepth(_, _, _)
ScanDepth(text, idx, depth) ==
    IF idx > Len(text) THEN 0
    ELSE IF text[idx] = "{" THEN ScanDepth(text, idx + 1, depth + 1)
    ELSE IF text[idx] = "}"
         THEN (IF depth - 1 = 0 THEN idx ELSE ScanDepth(text, idx + 1, depth - 1))
    ELSE ScanDepth(text, idx + 1, depth)

extract_first_json_object(text) ==
    LET start == Find(text, "{")
    IN  IF start = 0 THEN None
        ELSE LET stop == ScanDepth(text, start, 0)
             IN  IF stop = 0 THEN None ELSE SubSeq(text, start, stop)

\* cleaned.replace(sub, "", 1)
Replace1(text, sub) ==
    LET n == Len(sub)
        at == {i \in 1..(Len(text) - n + 1) : SubSeq(text, i, i + n - 1) = sub}
    IN  IF at = {} THEN text
        ELSE LET i == CHOOSE k \in at : \A j \in at : k <= j
             IN  SubSeq(text, 1, i - 1) \o SubSeq(text, i + n, Len(text))

\* the end of the string that opens at i: the index after its closing quote, or 0
StringEnd(t, i) ==
    IF i > Len(t) \/ t[i] # "\"" THEN 0
    ELSE LET closes == {j \in (i + 1)..Len(t) : t[j] = "\""}
         IN  IF closes = {} THEN 0
             ELSE 1 + CHOOSE j \in closes : \A k \in closes : j <= k

\* the JSON grammar json.loads follows: the index after the value that starts at
\* i (after the object whose members start at i), or 0 when there is none
RECURSIVE ParseValue(_, _), ParseMembers(_, _)
ParseValue(t, i) ==
    IF i > Len(t) THEN 0
    ELSE IF t[i] = "{" THEN ParseMembers(t, i + 1)
    ELSE IF t[i] = "\"" THEN StringEnd(t, i)
    ELSE IF t[i] = "x" THEN i + 1
    ELSE 0

ParseMembers(t, i) ==
    IF i > Len(t) THEN 0
    ELSE IF t[i] = "}" THEN i + 1
    ELSE LET k == StringEnd(t, i)
         IN  IF k = 0 THEN 0
             ELSE LET v == ParseValue(t, k)
                  IN  IF v = 0 THEN 0 ELSE ParseMembers(t, v)

\* the text is one JSON object, from its first to its last character
IsJsonObject(t) == Len(t) >= 2 /\ t[1] = "{" /\ ParseMembers(t, 2) = Len(t) + 1

\* json.loads(obj_text): the object, which its text stands for, or the
\* JSONDecodeError, a ValueError
json_loads(t) ==
    IF IsJsonObject(t) THEN [out |-> "ok", value |-> t]
    ELSE [out |-> "ValueError", value |-> None]

parse_first_json_object(text) ==
    LET cleaned == strip_code_fences(text)
        obj_text == extract_first_json_object(cleaned)
    IN  IF obj_text = None
        THEN [out |-> "ValueError", value |-> None]
        ELSE LET remainder == Replace1(cleaned, obj_text)
             IN  IF "{" \in Range(remainder) \/ "}" \in Range(remainder)
                 THEN [out |-> "ValueError", value |-> None]
                 ELSE json_loads(obj_text)

(* ------------------------------- rollups.py ----------------------------- *)

\* values of AI_BACKEND
Backends == {"stub", "localai", "bogus"}

\* METADATA_SCHEMA with its four required keys taken as one: the payload conforms
\* if it has the key "x" with a string value and no other key
ConformsMetadata(obj) ==
    /\ IsJsonObject(obj)
    /\ Len(obj) >= 6
    /\ SubSeq(obj, 2, 4) = <<"\"", "x", "\"">>
    /\ StringEnd(obj, 5) = Len(obj)

\* the payload of the stub backend
StubMetadata == <<"{", "\"", "x", "\"", "\"", "\"", "}">>

\* rollups._validate(payload, schema)
_validate_skill(payload) ==
    IF ConformsMetadata(payload) THEN [out |-> "ok", value |-> payload]
    ELSE [out |-> "SkillError", value |-> None]

\* build_metadata(text), given the completion the chat backend returns
build_metadata(be, completion) ==
    IF be = "stub" THEN _validate_skill(StubMetadata)
    ELSE IF be # "localai" THEN [out |-> "SkillError", value |-> None]
    ELSE LET payload == parse_first_json_object(completion)
         IN  IF payload.out # "ok" THEN payload ELSE _validate_skill(payload.value)

\* LibSpec, jsonio: a completion is given to parse_first_json_object and to
\* build_metadata
ParseInit ==
    /\ lib_task = "parse"
    /\ MoreIdle
    /\ backend \in Backends
    /\ content \in (IF backend = "localai" THEN Texts ELSE {<<>>})
    /\ parsed = NotParsed
    /\ built = NotParsed
    /\ HashIdle
    /\ StoreIdle
    /\ ChatIdle
    /\ ErrIdle
    /\ FilterIdle

ParseCompletion ==
    /\ lib_task = "parse"
    /\ parsed = NotParsed
    /\ parsed' = parse_first_json_object(content)
    /\ UNCHANGED <<mainVars, lib_task, moreVars, looked, chatVars, errVars, filterVars, backend, content, built, hashVars, diskVars>>

BuildMetadata ==
    /\ lib_task = "parse"
    /\ built = NotParsed
    /\ built' = build_metadata(backend, content)
    /\ UNCHANGED <<mainVars, lib_task, moreVars, looked, chatVars, errVars, filterVars, backend, content, parsed, hashVars, diskVars>>

\* ---- store.call_id_from_audio, byte by byte ----

Bytes == {0, 1}

ByteSeqs == UNION {[1..n -> Bytes] : n \in 0..MaxFileLen}

\* a file to hash: its name, its bytes, and the size handed to handle.read
\* (1024 * 1024 in the code)
AudioFiles == [name : Paths, bytes : ByteSeqs, chunk : 1..MaxChunk]

\* handle.read(n) at offset pos: the next n bytes, fewer at the end of the file
read(bytes, pos, n) ==
    SubSeq(bytes, pos + 1, IF pos + n < Len(bytes) THEN pos + n ELSE Len(bytes))

\* a variant that stops at the first chunk shorter than n
RECURSIVE iter_chunks_fullOnly(_, _, _)
iter_chunks_fullOnly(bytes, pos, n) ==
    LET chunk == read(bytes, pos, n)
    IN  IF Len(chunk) < n THEN <<>>
        ELSE <<chunk>> \o iter_chunks_fullOnly(bytes, pos + Len(chunk), n)

\* iter(lambda: handle.read(n), b""): the chunks up to the first empty one
RECURSIVE iter_chunks(_, _, _)
iter_chunks(bytes, pos, n) ==
    LET chunk == read(bytes, pos, n)
    IN  IF chunk = <<>> THEN <<>>
        ELSE <<chunk>> \o iter_chunks(bytes, pos + Len(chunk), n)

\* digest.update(chunk) for each chunk: the message the digest has absorbed
RECURSIVE digest_update(_, _)
digest_update(message, chunks) ==
    IF chunks = <<>> THEN message
    ELSE digest_update(message \o Head(chunks), Tail(chunks))

\* call_id_from_audio(path): sha256 over the chunks; the digest stands for the
\* absorbed message, one digest per message
call_id_of_file(file) ==
    call_id_from_audio(digest_update(<<>>, iter_chunks(file.bytes, 0, file.chunk)))

HashInit ==
    /\ lib_task = "hash"
    /\ MoreIdle
    /\ hash_in \in AudioFiles \X AudioFiles
    /\ hash_out = <<>>
    /\ ParseIdle
    /\ StoreIdle
    /\ ChatIdle
    /\ ErrIdle
    /\ FilterIdle

HashFiles ==
    /\ lib_task = "hash"
    /\ hash_out = <<>>
    /\ hash_out' = <<call_id_of_file(hash_in[1]), call_id_of_file(hash_in[2])>>
    /\ UNCHANGED <<mainVars, lib_task, moreVars, looked, chatVars, errVars, filterVars, hash_in, parseVars, diskVars>>

\* ---- the store's writes, step by step, beside a reader ----

\* a variant in which a reader takes every file of the call directory
ReadPaths_everyFile == StoreFiles

\* the paths other components read (list_calls, read_call)
ReadPaths == {"call_record.json", "metadata.json"}

\* the file holds the whole JSON text of its document
Complete(file) == file # NoFile /\ file.len = DocChunks

\* call records for one CallID; the last lacks the required field status
RecordPayloads ==
    {_call_record_template(call_id_from_audio(1), "a.wav", "complete", ""),
     _call_record_template(call_id_from_audio(1), "a.wav", "error", "boom"),
     [id |-> call_id_from_audio(1), original_filename |-> "a.wav", error |-> ""]}

\* metadata artifacts; the last lacks the required field tags
ArtifactPayloads ==
    {[call_type |-> "fire", location |-> "x", notes |-> "", tags |-> <<>>],
     [call_type |-> "fire", location |-> "x", notes |-> ""]}

\* the calls made on the store module
StoreCalls ==
    {[fn |-> "write_call_record", payload |-> p] : p \in RecordPayloads}
        \cup {[fn |-> "write_json_atomic", payload |-> p] : p \in ArtifactPayloads}

\* jsonschema validation: required fields present, no additional ones
Conforms(payload, schema_name) ==
    IF schema_name = "call_record"
    THEN /\ {"id", "original_filename", "status"} \subseteq DOMAIN payload
         /\ DOMAIN payload \subseteq {"id", "original_filename", "status", "error"}
    ELSE DOMAIN payload = {"call_type", "location", "notes", "tags"}

\* the schema a call names, and the path it is to write
SchemaOf(call) == IF call.fn = "write_call_record" THEN "call_record" ELSE "metadata"
TargetOf(call) == IF call.fn = "write_call_record" THEN "call_record.json" ELSE "metadata.json"

\* a variant that writes the text to the path itself
tmp_path_inPlace(path) == path

\* path.with_suffix(path.suffix + ".tmp")
tmp_path(path) == path \o ".tmp"

StoreInit ==
    /\ lib_task = "store"
    /\ MoreIdle
    /\ StoreIdle
    /\ ParseIdle
    /\ HashIdle
    /\ ChatIdle
    /\ ErrIdle
    /\ FilterIdle

\* a call on the store: write_json_atomic is no attribute of the module;
\* write_call_record validates first and raises StoreError on a payload that
\* does not conform
StoreCall ==
    /\ lib_task = "store"
    /\ w_pc = "idle"
    /\ \E call \in StoreCalls :
        /\ w_call' = call
        /\ IF call.fn = "write_json_atomic"
           THEN w_pc' = "idle" /\ w_out' = "AttributeError"
           ELSE IF ~Conforms(call.payload, SchemaOf(call))
           THEN w_pc' = "idle" /\ w_out' = "StoreError"
           ELSE w_pc' = "write_text" /\ w_out' = ""
    /\ UNCHANGED <<mainVars, lib_task, moreVars, looked, chatVars, errVars, filterVars, parseVars, hashVars, disk, seen>>

\* tmp_path.write_text(...): open the file for writing, which empties it
OpenTmp ==
    /\ lib_task = "store"
    /\ w_pc = "write_text"
    /\ disk' = [disk EXCEPT ![tmp_path(TargetOf(w_call))] =
                    [doc |-> w_call.payload, len |-> 0]]
    /\ w_pc' = "writing"
    /\ UNCHANGED <<mainVars, lib_task, moreVars, looked, chatVars, errVars, filterVars, parseVars, hashVars, w_call, w_out, seen>>

\* ... and write the text, a piece at a time
WriteChunk ==
    /\ lib_task = "store"
    /\ w_pc = "writing"
    /\ LET tmp == tmp_path(TargetOf(w_call))
       IN  /\ disk' = [disk EXCEPT ![tmp].len = @ + 1]
           /\ w_pc' = IF disk[tmp].len + 1 = DocChunks THEN "replace" ELSE "writing"
    /\ UNCHANGED <<mainVars, lib_task, moreVars, looked, chatVars, errVars, filterVars, parseVars, hashVars, w_call, w_out, seen>>

\* tmp_path.replace(path), then return validated
Replace ==
    /\ lib_task = "store"
    /\ w_pc = "replace"
    /\ LET path == TargetOf(w_call)
           tmp == tmp_path(path)
       IN  disk' = [f \in StoreFiles |->
                        IF f = path THEN disk[tmp]
                        ELSE IF f = tmp THEN NoFile
                        ELSE disk[f]]
    /\ w_pc' = "idle"
    /\ w_out' = "ok"
    /\ UNCHANGED <<mainVars, lib_task, moreVars, looked, chatVars, errVars, filterVars, parseVars, hashVars, w_call, seen>>

\* the write is interrupted inside the call: the process is killed (the next
\* call is made by a new process), or write_text or replace raises OSError
KillWriter ==
    /\ lib_task = "store"
    /\ w_pc # "idle"
    /\ w_pc' = "idle"
    /\ w_out' \in {"killed", "OSError"}
    /\ UNCHANGED <<mainVars, lib_task, moreVars, looked, chatVars, errVars, filterVars, parseVars, hashVars, disk, w_call, seen>>

\* another component reads a path: record_path.read_text(), path.read_text()
ReadPath ==
    /\ lib_task = "store"
    /\ \E f \in ReadPaths :
        seen' = [file |-> f, content |-> disk[f], at |-> w_pc]
    /\ UNCHANGED <<mainVars, lib_task, moreVars, looked, chatVars, errVars, filterVars, parseVars, hashVars, disk, w_pc, w_call, w_out>>

\* ---- store.read_call ----

\* record files read_call may find: none, a record, a JSON object that lacks the
\* required field status, and a text cut short that is no JSON
StoredRecordFiles ==
    {NoFile} \cup {[doc |-> p, len |-> DocChunks] : p \in RecordPayloads}
        \cup {[doc |-> p, len |-> 1] : p \in RecordPayloads}

\* a variant that returns what it parsed without validating it
read_call_unvalidated(file) ==
    IF file = NoFile
    THEN [file |-> file, out |-> "StoreError: call record not found", record |-> NoRecord]
    ELSE IF ~Complete(file)
    THEN [file |-> file, out |-> "JSONDecodeError", record |-> NoRecord]
    ELSE [file |-> file, out |-> "ok", record |-> file.doc]

\* read_call(call_id), given the record file of the call: lines 127-131; the
\* artifacts returned beside the record are left out
read_call(file) ==
    IF file = NoFile
    THEN [file |-> file, out |-> "StoreError: call record not found", record |-> NoRecord]
    ELSE IF ~Complete(file)
    THEN [file |-> file, out |-> "JSONDecodeError", record |-> NoRecord]
    ELSE IF ~Conforms(file.doc, "call_record")
    THEN [file |-> file, out |-> "StoreError: validation failed", record |-> NoRecord]
    ELSE [file |-> file, out |-> "ok", record |-> file.doc]

LookupInit ==
    /\ lib_task = "lookup"
    /\ MoreIdle
    /\ disk \in [StoreFiles -> StoredRecordFiles]
    /\ disk["call_record.json.tmp"] = NoFile
    /\ disk["metadata.json"] = NoFile
    /\ w_pc = "idle"
    /\ w_call = NotCalled
    /\ w_out = ""
    /\ seen = NothingRead
    /\ looked = NotLooked
    /\ ParseIdle
    /\ HashIdle
    /\ ChatIdle
    /\ ErrIdle
    /\ FilterIdle

\* a call of read_call, on a store at rest or beside the writer
ReadCall ==
    /\ lib_task \in {"store", "lookup"}
    /\ looked' = read_call(disk["call_record.json"])
    /\ looked' # looked
    /\ UNCHANGED <<mainVars, lib_task, moreVars, chatVars, errVars, filterVars, parseVars,
                   hashVars, diskVars>>

\* ---- the read paths: the API's _read_json and store.read_call ----

\* the files of a call directory at rest: none, a whole document, conforming to
\* its schema or not, and a text cut short that is no JSON
StoredFiles(payloads) ==
    {NoFile} \cup {[doc |-> p, len |-> n] : p \in payloads, n \in {1, DocChunks}}

\* the schema each read path names for a file
SchemaNames == [f \in ServedFiles |->
                  IF f = "call_record.json" THEN "call_record" ELSE "metadata"]

\* app._read_json(path, schema_name): 404, invalid JSON, schema_invalid, or the
\* payload
_read_json(file, schema_name) ==
    IF file = NoFile THEN [out |-> "404 not_found", payload |-> NoRecord]
    ELSE IF ~Complete(file) THEN [out |-> "500 invalid_json", payload |-> NoRecord]
    ELSE IF ~Conforms(file.doc, schema_name)
    THEN [out |-> "500 schema_invalid", payload |-> NoRecord]
    ELSE [out |-> "ok", payload |-> file.doc]

\* store._read_json_if_exists(path): None (written NoRecord) for a missing file
\* and for a text that is no JSON, else whatever json.loads returns
_read_json_if_exists(file) ==
    IF file = NoFile \/ ~Complete(file) THEN NoRecord ELSE file.doc

ServeInit ==
    /\ lib_task = "serve"
    /\ CoreIdle
    /\ DocIdle
    /\ WaitIdle
    /\ QueueIdle
    /\ BriefIdle
    /\ call_dir \in [ServedFiles -> StoredFiles(RecordPayloads \cup ArtifactPayloads)]
    /\ call_dir["call_record.json"] \in StoredFiles(RecordPayloads)
    /\ call_dir["metadata.json"] \in StoredFiles(ArtifactPayloads)
    /\ served = NotServed

\* GET /calls/{call_id} and GET /calls/{call_id}/metadata
GetArtifact ==
    /\ lib_task = "serve"
    /\ \E f \in ServedFiles :
        LET r == _read_json(call_dir[f], SchemaNames[f])
        IN  served' = [via |-> "api", name |-> f, file |-> call_dir[f],
                       out |-> r.out, payload |-> r.payload]
    /\ served' # served
    /\ UNCHANGED <<mainVars, lib_task, coreLibVars, docVars, waitVars, queueVars, briefVars, call_dir>>

\* read_call as the command line emits it: the record validated by line 130,
\* the artifacts beside it as lines 133-135 read them; `name` is the key of
\* the returned bundle the consumer looks at
EmitReadCall ==
    /\ lib_task = "serve"
    /\ \E f \in ServedFiles :
        LET r == read_call(call_dir["call_record.json"])
        IN  served' = [via |-> "read_call", name |-> f, file |-> call_dir[f],
                       out |-> r.out,
                       payload |-> IF r.out # "ok" THEN NoRecord
                                   ELSE IF f = "call_record.json" THEN r.record
                                   ELSE _read_json_if_exists(call_dir[f])]
    /\ served' # served
    /\ UNCHANGED <<mainVars, lib_task, coreLibVars, docVars, waitVars, queueVars, briefVars, call_dir>>

\* ---- clients._post, as localai_chat and openai_chat call it ----

\* the retries argument of lines 42 and 59
Retries == 1

\* build_metadata or build_rollup asks the chat backend for a completion
ChatInit ==
    /\ lib_task = "chat"
    /\ MoreIdle
    /\ p_pc = "post"
    /\ attempt = 0
    /\ sent = 0
    /\ p_out = ""
    /\ ParseIdle
    /\ HashIdle
    /\ StoreIdle
    /\ ErrIdle
    /\ FilterIdle

\* lines 20-26: requests.post(...) returns a response, or raises a
\* RequestException, which is raised again only if attempt >= retries
Post ==
    /\ lib_task = "chat"
    /\ p_pc = "post"
    /\ sent' = sent + 1
    /\ \E answered \in BOOLEAN :
          IF answered
          THEN p_pc' = "done" /\ p_out' = "response"
          ELSE IF attempt >= Retries
          THEN p_pc' = "done" /\ p_out' = "RequestException"
          ELSE p_pc' = "sleep" /\ p_out' = ""
    /\ UNCHANGED <<mainVars, lib_task, moreVars, looked, errVars, filterVars, parseVars, hashVars, diskVars, attempt>>

\* line 27 and the next iteration of for attempt in range(retries + 1)
SleepAndRetry ==
    /\ lib_task = "chat"
    /\ p_pc = "sleep"
    /\ attempt' = attempt + 1
    /\ p_pc' = "post"
    /\ UNCHANGED <<mainVars, lib_task, moreVars, looked, errVars, filterVars, parseVars, hashVars, diskVars, sent, p_out>>

\* ---- the error record of process_file (lines 116-130 and 157-171) ----

\* the slice bound of lines 117 and 158
ErrorLimit == 240

\* a variant that takes the whole message
Slice_whole(text, n) == text

\* text[:n]
Slice(text, n) == SubSeq(text, 1, IF Len(text) < n THEN Len(text) ELSE n)

\* messages of every length up to MaxMessageLen, of two characters by turns
Messages ==
    {[i \in 1..n |-> IF i % 2 = 1 THEN "a" ELSE "b"] : n \in 0..MaxMessageLen}

\* a handler has caught an exception: that of the transfer or that of a stage
ErrInit ==
    /\ lib_task \in {"transfer_error", "stage_error"}
    /\ MoreIdle
    /\ exc_message \in Messages
    /\ error_rec = NoRecord
    /\ ParseIdle
    /\ HashIdle
    /\ StoreIdle
    /\ ChatIdle
    /\ FilterIdle

\* error = str(err)[:240]; record = _call_record_template(..., "error", error)
BuildErrorRecord ==
    /\ lib_task \in {"transfer_error", "stage_error"}
    /\ error_rec = NoRecord
    /\ error_rec' = _call_record_template(call_id_from_audio(1), "a.wav", "error",
                                          Slice(exc_message, ErrorLimit))
    /\ UNCHANGED <<mainVars, lib_task, moreVars, looked, exc_message, chatVars, filterVars, parseVars,
                   hashVars, diskVars>>

\* ---- the filter of run_watcher on a directory entry (lines 195-219) ----

\* A name is a sequence of parts: the dot, the text "writetest-", and texts
\* without a dot ("a", "wav", "WAV", "txt").
NameParts == {".", "writetest-", "a", "wav", "WAV", "txt"}

Names == UNION {[1..n -> NameParts] : n \in 1..MaxNameLen}

\* what the listing may hold: regular files and directories
Entries == [kind : {"file", "dir"}, name : Names]

\* ALLOWED_EXTENSIONS
ALLOWED_EXTENSIONS ==
    {<<".", "mp3">>, <<".", "wav">>, <<".", "m4a">>, <<".", "aac">>,
     <<".", "flac">>, <<".", "ogg">>}

\* str.lower() of a part
LowerPart(part) == IF part = "WAV" THEN "wav" ELSE part

\* name.startswith(".")
StartsWithDot(name) == name[1] = "."

\* ".writetest-" in name
HasWriteTestMarker(name) ==
    \E i \in 1..(Len(name) - 1) : name[i] = "." /\ name[i + 1] = "writetest-"

\* entry.suffix: the name from its last dot on, unless that dot is the first or
\* the last character
suffix(name) ==
    LET dots == {i \in 1..Len(name) : name[i] = "."}
    IN  IF dots = {} THEN <<>>
        ELSE LET i == CHOOSE d \in dots : \A e \in dots : e <= d
             IN  IF 1 < i /\ i < Len(name) THEN SubSeq(name, i, Len(name)) ELSE <<>>

\* entry.suffix.lower()
LowerSuffix(name) == [i \in 1..Len(suffix(name)) |-> LowerPart(suffix(name)[i])]

\* a variant that looks at the extension only
IsCandidate_extensionOnly(e) == LowerSuffix(e.name) \in ALLOWED_EXTENSIONS

\* lines 196-202: the entry passes the three tests that end in continue
IsCandidate(e) ==
    /\ e.kind = "file"
    /\ ~(StartsWithDot(e.name) \/ HasWriteTestMarker(e.name))
    /\ LowerSuffix(e.name) \in ALLOWED_EXTENSIONS

FilterInit ==
    /\ lib_task = "filter"
    /\ MoreIdle
    /\ entry \in Entries
    /\ visit_out = NotVisited
    /\ ParseIdle
    /\ HashIdle
    /\ StoreIdle
    /\ ChatIdle
    /\ ErrIdle

\* one iteration of the for loop on the entry, a file of one byte seen for the
\* first time: continue, or lines 216-226
VisitDirEntry ==
    /\ lib_task = "filter"
    /\ ~visit_out.visited
    /\ visit_out' =
          IF ~IsCandidate(entry)
          THEN [visited |-> TRUE, history |-> <<>>, submitted |-> FALSE]
          ELSE LET h == Push(<<>>, 1, stable_polls)
               IN  [visited |-> TRUE, history |-> h,
                    submitted |-> ~NotStable(h, stable_polls)]
    /\ UNCHANGED <<mainVars, lib_task, moreVars, looked, entry, chatVars, errVars, parseVars, hashVars,
                   diskVars>>

\* ---- mcp_server.client: AlertsClient.briefing ----

\* the slice [:3] of lines 89 and 90
TopN == 3

\* calls as /api/calls returns them: tags is a list ([] where the call has no
\* such key), location a text written as its pieces, " " being white space
\* (<<>> for a missing key, for None and for "")
CallShapes ==
    {[tags |-> <<"fire">>, location |-> <<"Main">>],
     [tags |-> <<"ems", "fire">>, location |-> <<"Oak", " ">>],
     [tags |-> <<"ems">>, location |-> <<" ">>],
     [tags |-> <<"haz", "ems">>, location |-> <<"Elm">>],
     [tags |-> <<>>, location |-> <<>>],
     [tags |-> <<"mva">>, location |-> <<" ", "Pine">>]}

CallLists == UNION {[1..n -> CallShapes] : n \in 0..MaxCalls}

\* str.strip()
strip(text) ==
    LET ink == {i \in 1..Len(text) : text[i] # " "}
    IN  IF ink = {} THEN <<>>
        ELSE SubSeq(text, CHOOSE i \in ink : \A j \in ink : i <= j,
                          CHOOSE i \in ink : \A j \in ink : j <= i)

\* the keys the loop of lines 83-88 meets, in order
RECURSIVE Concat(_)
Concat(lists) ==
    IF lists = <<>> THEN <<>> ELSE Head(lists) \o Concat(Tail(lists))

\* d[key] = d.get(key, 0) + 1 for each key in turn; a dict keeps its keys in
\* the order of their insertion
RECURSIVE Tally(_, _)
Tally(keys, d) ==
    IF keys = <<>> THEN d
    ELSE LET at == {i \in 1..Len(d) : d[i].key = Head(keys)}
         IN  Tally(Tail(keys),
                   IF at = {} THEN Append(d, [key |-> Head(keys), n |-> 1])
                   ELSE [i \in 1..Len(d) |->
                            IF i \in at THEN [d[i] EXCEPT !.n = @ + 1] ELSE d[i]])

\* a variant that leaves the items in the order of the dict
sorted_asInserted(items) == items

\* sorted(d.items(), key=lambda kv: kv[1], reverse=True): stable, so items of
\* one count keep their order
RECURSIVE sorted(_)
sorted(items) ==
    IF items = <<>> THEN <<>>
    ELSE LET rest == sorted(Tail(items))
             k == Cardinality({i \in 1..Len(rest) : rest[i].n > Head(items).n})
         IN  SubSeq(rest, 1, k) \o <<Head(items)>> \o SubSeq(rest, k + 1, Len(rest))

_summarize(calls) ==
    IF calls = <<>> THEN NoCallsSummary
    ELSE LET tags == Tally(Concat([i \in 1..Len(calls) |-> calls[i].tags]), <<>>)
             towns == Tally(Concat([i \in 1..Len(calls) |->
                                      LET loc == strip(calls[i].location)
                                      IN  IF loc = <<>> THEN <<>> ELSE <<loc>>]), <<>>)
             Top(items) == SubSeq(sorted(items), 1,
                                  IF Len(items) < TopN THEN Len(items) ELSE TopN)
         IN  [text |-> "Calls: n in last window, Top tags, Top locations",
              calls |-> Len(calls), top_tags |-> Top(tags), top_locations |-> Top(towns)]

BriefInit ==
    /\ lib_task = "brief"
    /\ CoreIdle
    /\ DocIdle
    /\ WaitIdle
    /\ QueueIdle
    /\ ServeIdle
    /\ brief_in \in [status : {"queue empty", "queue busy"}, calls : CallLists]
    /\ brief_out = NotBriefed

\* briefing(): status(), _get_calls(), _summarize(), and the three together
Briefing ==
    /\ lib_task = "brief"
    /\ brief_out = NotBriefed
    /\ brief_out' = [status |-> brief_in.status, calls |-> brief_in.calls,
                     summary |-> _summarize(brief_in.calls)]
    /\ UNCHANGED <<mainVars, lib_task, coreLibVars, docVars, waitVars, queueVars, serveVars, brief_in>>

\* ---- alertframework.py: the job queue of one file name ----

\* ThreadPoolExecutor(max_workers=4)
MaxWorkers == 4

QueueInit ==
    /\ lib_task = "queue"
    /\ CoreIdle
    /\ DocIdle
    /\ WaitIdle
    /\ ServeIdle
    /\ BriefIdle
    /\ QueueIdle

\* an inotify line for the file (lines 300-319), or a request of
\* /api/transcription/{file_name}, which answers by itself from a row that is
\* done or processing (lines 386-401)
Request(c) ==
    /\ lib_task = "queue"
    /\ caller[c].pc = "idle"
    /\ caller[c].made < MaxRequests
    /\ caller' = [caller EXCEPT ![c] =
                    [pc |-> IF c = "api" /\ job_row \in {"done", "processing"}
                            THEN "idle" ELSE "ensure",
                     made |-> @.made + 1]]
    /\ UNCHANGED <<mainVars, lib_task, coreLibVars, docVars, waitVars, serveVars, briefVars, job_row, pool>>

\* ensure_transcription_queued, lines 261-266: the row is read and the call
\* returns its status if that is processing or done; the file is there
Ensure(c) ==
    /\ lib_task = "queue"
    /\ caller[c].pc = "ensure"
    /\ caller' = [caller EXCEPT ![c].pc =
                    IF job_row \in {"processing", "done"} THEN "idle" ELSE "submit"]
    /\ UNCHANGED <<mainVars, lib_task, coreLibVars, docVars, waitVars, serveVars, briefVars, job_row, pool>>

\* line 268: EXECUTOR.submit(transcribe_worker, src_path, file_name)
Submit(c) ==
    /\ lib_task = "queue"
    /\ caller[c].pc = "submit"
    /\ pool' = [pool EXCEPT !.queued = @ + 1]
    /\ caller' = [caller EXCEPT ![c].pc = "idle"]
    /\ UNCHANGED <<mainVars, lib_task, coreLibVars, docVars, waitVars, serveVars, briefVars, job_row>>

\* a thread of the pool takes the job: transcribe_worker, lines 215-221
WorkerStart ==
    /\ lib_task = "queue"
    /\ pool.queued > 0
    /\ pool.running < MaxWorkers
    /\ pool' = [queued |-> pool.queued - 1, running |-> pool.running + 1]
    /\ job_row' = "processing"
    /\ UNCHANGED <<mainVars, lib_task, coreLibVars, docVars, waitVars, serveVars, briefVars, caller>>

\* transcribe_worker returns: lines 223-250
WorkerEnd ==
    /\ lib_task = "queue"
    /\ pool.running > 0
    /\ pool' = [pool EXCEPT !.running = @ - 1]
    /\ job_row' \in {"error", "done"}
    /\ UNCHANGED <<mainVars, lib_task, coreLibVars, docVars, waitVars, serveVars, briefVars, caller>>

\* ---- alertframework.py: wait_for_complete ----

\* src_path.stat() raised FileNotFoundError
FileGone == -1

\* what a check may see: no file, an empty file, a file of one of two sizes
StatResults == {FileGone} \cup 0..2

\* a variant that takes an empty file for a finished one
SameSize_alsoEmpty(size, last_size) == size = last_size

\* size == last_size and size > 0
SameSize(size, last_size) == size = last_size /\ size > 0

\* lines 163-165, for a call with max_wait a whole number of intervals
WaitInit ==
    /\ lib_task = "wait"
    /\ CoreIdle
    /\ DocIdle
    /\ ServeIdle
    /\ BriefIdle
    /\ QueueIdle
    /\ \E n \in 1..MaxWaitChecks :
          wait = [limit |-> n, elapsed |-> 0, last_size |-> -1, stable_count |-> 0,
                  out |-> ""]
    /\ stats = <<>>

\* one pass of the loop, lines 167-182
WaitCheck ==
    /\ lib_task = "wait"
    /\ wait.out = ""
    /\ wait.elapsed < wait.limit
    /\ \E size \in StatResults :
        /\ stats' = Append(stats, size)
        /\ wait' =
             IF size = FileGone THEN [wait EXCEPT !.out = "False"]
             ELSE IF SameSize(size, wait.last_size)
             THEN IF wait.stable_count + 1 >= 2
                  THEN [wait EXCEPT !.stable_count = @ + 1, !.out = "True"]
                  ELSE [wait EXCEPT !.stable_count = @ + 1, !.elapsed = @ + 1]
             ELSE [wait EXCEPT !.stable_count = 0, !.last_size = size,
                               !.elapsed = @ + 1]
    /\ UNCHANGED <<mainVars, lib_task, coreLibVars, docVars, serveVars, briefVars, queueVars>>

\* the loop ends with elapsed >= max_wait: lines 184-185
WaitTimeout ==
    /\ lib_task = "wait"
    /\ wait.out = ""
    /\ wait.elapsed >= wait.limit
    /\ wait' = [wait EXCEPT !.out = "False"]
    /\ UNCHANGED <<mainVars, lib_task, coreLibVars, docVars, serveVars, briefVars, queueVars,
                   stats>>

\* ---- caad_skillkit.docs.generator: the managed section ----

\* a text is written as its pieces: the markers DOC_BEGIN and DOC_END, a line
\* feed, and "x" for any other text without white space at its ends
DOC_BEGIN == "<!-- CAAD_DOCS_BEGIN -->"
DOC_END == "<!-- CAAD_DOCS_END -->"

DocTexts == UNION {[1..n -> {DOC_BEGIN, DOC_END, "\n", "x"}] : n \in 0..MaxDocLen}

\* str.lstrip() and str.rstrip()
lstrip(text) ==
    LET ink == {i \in 1..Len(text) : text[i] # "\n"}
    IN  IF ink = {} THEN <<>>
        ELSE SubSeq(text, CHOOSE i \in ink : \A j \in ink : i <= j, Len(text))

rstrip(text) ==
    LET ink == {i \in 1..Len(text) : text[i] # "\n"}
    IN  IF ink = {} THEN <<>>
        ELSE SubSeq(text, 1, CHOOSE i \in ink : \A j \in ink : j <= i)

\* f"{DOC_BEGIN}\n{content.strip()}\n{DOC_END}\n"; the content generated is
\* written "generated"
_managed_block == <<DOC_BEGIN, "\n", "generated", "\n", DOC_END, "\n">>

\* _apply_managed_section(existing, content), lines 32-41: split(marker, 1)
\* cuts at the first occurrence of the marker
_apply_managed_section(existing) ==
    IF DOC_BEGIN \in Range(existing) /\ DOC_END \in Range(existing)
    THEN LET pre == SubSeq(existing, 1, Find(existing, DOC_BEGIN) - 1)
             post == SubSeq(existing, Find(existing, DOC_END) + 1, Len(existing))
         IN  pre \o _managed_block \o lstrip(post)
    ELSE IF rstrip(existing) = <<>> THEN _managed_block
    ELSE rstrip(existing) \o <<"\n", "\n">> \o _managed_block

DocInit ==
    /\ lib_task = "docs"
    /\ CoreIdle
    /\ ServeIdle
    /\ BriefIdle
    /\ QueueIdle
    /\ WaitIdle
    /\ \E e \in DocTexts :
          doc = [existing |-> e, once |-> <<>>, twice |-> <<>>, out |-> ""]

\* docs_all(write=True): _write_if_changed writes the updated text
DocsAll ==
    /\ lib_task = "docs"
    /\ doc.out = ""
    /\ doc' = [doc EXCEPT !.once = _apply_managed_section(doc.existing),
                          !.out = "written"]
    /\ UNCHANGED <<mainVars, lib_task, coreLibVars, serveVars, briefVars, queueVars,
                   waitVars>>

\* docs_validate(): docs_all(write=False) on the file as written, with the same
\* generated content; RuntimeError if the file would change
DocsValidate ==
    /\ lib_task = "docs"
    /\ doc.out = "written"
    /\ LET updated == _apply_managed_section(doc.once)
       IN  doc' = [doc EXCEPT !.twice = updated,
                              !.out = IF updated # doc.once
                                      THEN "RuntimeError: documentation is out of date"
                                      ELSE "ok"]
    /\ UNCHANGED <<mainVars, lib_task, coreLibVars, serveVars, briefVars, queueVars,
                   waitVars>>

LibInit == MainIdle /\ (ParseInit \/ HashInit \/ StoreInit \/ ChatInit \/ ErrInit
                        \/ FilterInit \/ LookupInit \/ ServeInit
                        \/ BriefInit
                        \/ QueueInit
                        \/ WaitInit
                        \/ DocInit)

LibNext ==
    \/ ParseCompletion
    \/ BuildMetadata
    \/ HashFiles
    \/ StoreCall
    \/ OpenTmp
    \/ WriteChunk
    \/ Replace
    \/ KillWriter
    \/ ReadPath
    \/ Post
    \/ SleepAndRetry
    \/ BuildErrorRecord
    \/ VisitDirEntry
    \/ ReadCall
    \/ GetArtifact
    \/ EmitReadCall
    \/ Briefing
    \/ \E c \in Callers : Request(c)
    \/ \E c \in Callers : Ensure(c)
    \/ \E c \in Callers : Submit(c)
    \/ WorkerStart
    \/ WorkerEnd
    \/ WaitCheck
    \/ WaitTimeout
    \/ DocsAll
    \/ DocsValidate

LibSpec == LibInit /\ [][LibNext]_vars

(* ------------------------------- claims -------------------------------- *)

\* a call of process_file has ended: it returned, or an exception left it
CallEnded == pc \in {"return", "crashed"} /\ call_id # NoCall

\* C1: a call that finds a record for its call id returns that record unchanged
\* and has no effect: no transfer, no backend, no record written, whatever the
\* name of the file the record was written for.
C1_SecondCallReturnsStoredRecord ==
    (pc = "return" /\ IsRecord(pf_prior)) =>
        /\ result = pf_prior
        /\ record[call_id] = pf_prior
        /\ pf_effects = {}

\* C1 happens: the record returned was written by a call on a file of another name
C1_Witness ==
    /\ pc = "return"
    /\ IsRecord(pf_prior)
    /\ pf_prior.original_filename \in Paths \ {cur}

\* C2: a content the watcher found stable and submitted gets a complete or error
\* record; stated for the runs that have ended, where nothing can follow, and in
\* which the store refused no write.
C2_StableContentRecorded ==
    (pc = "crashed" /\ call_id # NoCall /\ exc # "StoreError") =>
        record[call_id].status \in {"complete", "error"}

\* failures of a pipeline stage: the backend's transport or HTTP error, the
\* store's write error
StageFailures == {"HTTPError", "StoreError"}

\* C3: no failure of a pipeline stage leaves process_file as an exception and
\* ends the watcher.
C3_StageFailuresContained == ~(pc = "crashed" /\ exc \in StageFailures)

\* C4: a call whose transcription succeeded and validated persists the
\* transcript and ends with a complete record for the call id.
C4_SuccessPersistsComplete ==
    (CallEnded /\ stage_out = "ok") =>
        /\ "transcript" \in artifacts[call_id]
        /\ record[call_id].status = "complete"
        /\ record[call_id].id = call_id

\* C5: a call whose stage failed ends with an error record persisted for the
\* call id (the store refusing no write) and attempts no later stage.
C5_StageFailureRecorded ==
    (CallEnded /\ stage_out \in {"TranscribeError", "HTTPError"}
               /\ exc # "StoreError") =>
        /\ record[call_id].status = "error"
        /\ artifacts[call_id] = {}

\* C6: the steps of a call come in the order transcribe, persist transcript, ...,
\* write the record: a call that transcribed has persisted the transcript and
\* written the record, as its last step, when it ends.
C6_TranscriptThenRecordLast ==
    (CallEnded /\ stage_out = "ok" /\ "transcribe" \in pf_effects) =>
        /\ "transcript" \in artifacts[call_id]
        /\ "record" \in pf_effects

\* C7: a path is submitted only if each of the last stable_polls polling cycles
\* saw it present with the same size, none of them before an earlier submission.
C7_StabilityGate == pc = "resolve" => streak[cur] >= stable_polls

\* C8 as claimed: a file that grew on every poll is never submitted, whatever the
\* threshold.
C8_GrowingNeverSubmitted == pc = "resolve" => growth[cur] # "growing"

\* C8 amended: with a threshold of at least 2, a file that grew on every poll is
\* never submitted.
C8_GrowingNeverSubmittedFrom2 ==
    (pc = "resolve" /\ stable_polls >= 2) => growth[cur] # "growing"

\* C8 happens: a file that grew on every poll has a full window and was passed over
C8_Witness ==
    /\ stable_polls >= 2
    /\ pc = "visit"
    /\ \E p \in Paths \ todo :
          /\ growth[p] = "growing"
          /\ Len(size_history[p]) = stable_polls

\* C9: once a call has returned complete for a path, no later step of the same
\* run submits the path again or changes its entry in processed.
C9_CompleteNeverResubmitted ==
    [][\A p \in Paths :
          (processed[p].status = "complete"
             /\ pc' \notin {"crashed", "stopped", "killed"}) =>
              /\ processed'[p] = processed[p]
              /\ ~(pc' = "resolve" /\ cur' = p)]_vars

\* C9 happens: a path is complete and a later polling cycle has seen it again
C9_Witness ==
    \E p \in Paths : processed[p].status = "complete" /\ streak[p] >= 1

\* the window is full and holds one size
FullOfOneSize(h, n) == Len(h) = n /\ \A i \in 1..Len(h) : h[i] = h[1]

\* C10: a poll of a present path whose last outcome was error skips it while its
\* size is the recorded one; with another size it evicts the path, appends the
\* size to its history and submits the path if and only if the window is stable.
C10_ErrorRetryBySize ==
    [][\A p \in Paths :
          (/\ pc = "visit" /\ p \in todo /\ p \notin todo' /\ pc' # "stopped"
           /\ processed[p].status = "error" /\ fs[p] # Absent) =>
              IF SizeOf(fs[p]) = processed[p].size
              THEN /\ processed'[p] = processed[p]
                   /\ size_history'[p] = size_history[p]
                   /\ pc' = "visit"
              ELSE /\ processed'[p] = NoEntry
                   /\ Len(size_history'[p]) >= 1
                   /\ size_history'[p][Len(size_history'[p])] = SizeOf(fs[p])
                   /\ (pc' = "resolve" /\ cur' = p)
                        <=> FullOfOneSize(size_history'[p], stable_polls)]_vars

\* C10 happens: a path whose earlier call wrote an error record is submitted again
\* with another size
C10_Witness ==
    /\ pc = "resolve"
    /\ \E c \in Contents :
          /\ record[call_id_from_audio(c)].status = "error"
          /\ record[call_id_from_audio(c)].original_filename = cur
          /\ SizeOf(c) # cur_size

\* C11 as claimed: a poll that finds a path whose last outcome was error holding
\* other bytes than it held when that call returned, bytes never processed (no
\* record for their call id), evicts the path from the processed set, so that it
\* is evaluated again.
C11_ErrorRetryByContent ==
    [][\A p \in Paths :
          (/\ pc = "visit" /\ p \in todo /\ p \notin todo' /\ pc' # "stopped"
           /\ processed[p].status = "error"
           /\ held_at_return[p] # Absent /\ fs[p] \notin {Absent, held_at_return[p]}
           /\ record[call_id_from_audio(fs[p])] = NoRecord) =>
              processed'[p] = NoEntry]_vars

Restarted == prev_run # FirstRun

\* C19: in a run after a restart, a path seen with one size by stable_polls cycles
\* in a row is submitted although an earlier run processed it, and the call that
\* finds the record of its content returns it with no effect: no transfer, no
\* backend, no record written, the stored record unchanged.
C19_RestartResubmissionNoOp ==
    Restarted =>
        /\ \A p \in Paths :
              (pc = "visit" /\ p \notin todo /\ streak[p] >= stable_polls) =>
                  processed[p] # NoEntry
        /\ (pc = "return" /\ IsRecord(pf_prior)) =>
              /\ result = pf_prior
              /\ record[call_id] = pf_prior
              /\ pf_effects = {}

\* C19 happens: after a restart the file a call of the earlier run wrote a record
\* for is still there, was submitted again and the call returned that record
C19_Witness ==
    /\ Restarted
    /\ pc = "return"
    /\ IsRecord(pf_prior)
    /\ pf_prior.original_filename = cur
    /\ fs[cur] # Absent
    /\ pf_effects = {}

\* C20: in copy mode, after the process was killed in a call that had not written
\* its record, the call of the next run on the same content ends with a complete
\* or error record (the store refusing no write).
C20_KilledCallReprocessed ==
    (/\ ingest_mode = "copy"
     /\ prev_run[1] = "killed" /\ prev_run[2] # NoCall
     /\ CallEnded /\ call_id = prev_run[2]
     /\ exc # "StoreError") =>
        record[call_id].status \in {"complete", "error"}

\* the completion without a code fence in front and one at the end
Unfenced(t) ==
    IF Len(t) >= 2 /\ t[1] = "<fence>" /\ t[Len(t)] = "<fence>" THEN SubSeq(t, 2, Len(t) - 1)
    ELSE t

\* the number of top-level JSON objects of a text, the prose around them skipped
RECURSIVE CountObjects(_, _)
CountObjects(t, i) ==
    IF i > Len(t) THEN 0
    ELSE IF t[i] = "{" /\ ParseMembers(t, i + 1) # 0
         THEN 1 + CountObjects(t, ParseMembers(t, i + 1))
    ELSE CountObjects(t, i + 1)

\* C15: when the completion of the metadata stage holds two JSON objects, or is
\* one object that lacks the required key, build_metadata fails with an exception
\* process_file catches and turns into an error record.
C15_MalformedCompletionCaught ==
    (/\ lib_task = "parse" /\ backend = "localai" /\ built # NotParsed
     /\ \/ CountObjects(Unfenced(content), 1) >= 2
        \/ IsJsonObject(Unfenced(content)) /\ ~ConformsMetadata(Unfenced(content))) =>
        built.out \in Caught

\* C16: a completion that is exactly one JSON object, bare or between code
\* fences, is accepted by parse_first_json_object, which returns that object.
C16_SingleObjectAccepted ==
    (lib_task = "parse" /\ parsed # NotParsed /\ IsJsonObject(Unfenced(content))) =>
        parsed = [out |-> "ok", value |-> Unfenced(content)]

\* C17: call_id_from_audio depends only on the bytes of the file: two files get
\* the same CallID exactly when their bytes are the same, whatever their names
\* and whatever the size of the chunks they are read in.
C17_ContentAddressing ==
    (lib_task = "hash" /\ hash_out # <<>>) =>
        ((hash_out[1] = hash_out[2]) <=> (hash_in[1].bytes = hash_in[2].bytes))

\* two files of the same bytes under different names, read in chunks of
\* different sizes with a short last chunk, got the same CallID
C17_Witness ==
    /\ lib_task = "hash"
    /\ hash_out # <<>>
    /\ hash_in[1].name # hash_in[2].name
    /\ hash_in[1].chunk # hash_in[2].chunk
    /\ hash_in[1].bytes = hash_in[2].bytes
    /\ Len(hash_in[1].bytes) = MaxFileLen
    /\ hash_out[1] = hash_out[2]

\* C13: whenever another component reads the call-record path or an artifact
\* path, also in the middle of a write to it, it finds no file or the whole text
\* of a document, and no such path ever holds a partly written text.
C13_AtomicVisibility ==
    lib_task = "store" =>
        /\ \A f \in ReadPaths : disk[f] = NoFile \/ Complete(disk[f])
        /\ seen.file # "" => (seen.content = NoFile \/ Complete(seen.content))

\* a read made while the text of a new record was half written found the whole
\* previous record
C13_Witness ==
    /\ lib_task = "store"
    /\ seen.file = "call_record.json"
    /\ seen.at = "writing"
    /\ w_pc = "writing"
    /\ Complete(seen.content)
    /\ disk["call_record.json.tmp"].len = 1
    /\ disk["call_record.json.tmp"].doc # seen.content.doc

\* C14: a call of the store with a payload that does not conform to its schema
\* ends with the store's schema error, StoreError.
C14_NonConformingRejected ==
    (/\ lib_task = "store"
     /\ w_pc = "idle"
     /\ w_call # NotCalled
     /\ ~Conforms(w_call.payload, SchemaOf(w_call))) =>
        w_out = "StoreError"

\* C21: when the transfer step of process_file succeeds, the audio is in the
\* audio directory of the call under its original file name; if the mode given
\* is "move" (in any case of letters) the original is gone from the watched
\* directory, and for every other value, unset or unknown, it is still there.
C21_CopyVersusMove ==
    [][(pc = "transfer" /\ pc' = "transcribe") =>
          \A raw \in RawModes :
              ingest_mode = _normalize_mode(raw) =>
                  /\ cur \in audio'[call_id]
                  /\ IF Lower(raw) = "move"
                     THEN fs'[cur] = Absent
                     ELSE fs[cur] # Absent /\ fs'[cur] = fs[cur]]_vars

\* a transfer in move mode has succeeded: the audio is in the store and the
\* original is gone
C21_Witness ==
    /\ pc = "transcribe"
    /\ ingest_mode = "move"
    /\ cur \in audio[call_id]
    /\ fs[cur] = Absent

\* C22: a call whose transfer step failed invokes no backend and goes straight
\* to the error record; when it returns (the store refusing no write) it returns
\* an error record for the call id carrying the reason, that record is the one
\* persisted, and the call did nothing else: no transfer, no backend request, no
\* artifact.
C22_TransferFailureRecorded ==
    /\ (pc = "record_error" /\ err = "transfer failed") =>
          pf_effects = {} /\ stage_out = ""
    /\ (pc = "return" /\ err = "transfer failed") =>
          /\ result = _call_record_template(call_id, cur, "error", "transfer failed")
          /\ record[call_id] = result
          /\ pf_effects = {"record"}
          /\ stage_out = ""
          /\ artifacts[call_id] = {}

\* a call whose transfer failed has returned its error record
C22_Witness ==
    /\ pc = "return"
    /\ err = "transfer failed"
    /\ result.status = "error"
    /\ record[call_id].error = "transfer failed"
    /\ fs[cur] # Absent

\* C23: within one call a backend is requested at most once: a request that
\* failed is not sent again.
C23_BackendRequestedOnce == lib_task = "chat" => sent <= 1

\* C24: the watcher reacts to an interrupt only between calls of process_file:
\* a call in flight runs to its return before the loop is left.
C24_InterruptNeverCancelsCall == [][pc' = "stopped" => ~InCall]_vars

\* the watcher has handed the path to process_file, in a call still in flight
\* or in one that returned
Submitted(p) == (InCall /\ cur = p) \/ held_at_return[p] # Absent

\* C25: the watcher submits a file only after its writer has finished: with a
\* threshold of two polls or more, the writer appends nothing to a file that was
\* submitted.
C25_SubmittedFileIsFinal ==
    [][\A p \in Paths :
          (stable_polls >= 2 /\ Submitted(p) /\ fs[p] # Absent /\ fs'[p] # Absent) =>
              SizeOf(fs'[p]) <= SizeOf(fs[p])]_vars

\* C26: a call of process_file whose source is missing when it is called, or goes
\* missing before its hash is computed, ends at once with a not-found error,
\* having created no record, no artifact and no audio copy and having requested
\* no backend.
C26_VanishedSourceFailsFast ==
    [][(/\ pc \in {"resolve", "hash"}
        /\ fs[cur] = Absent
        /\ pc' \notin {pc, "stopped", "killed"}) =>
          /\ pc' = "crashed"
          /\ exc' \in NotFoundErrors
          /\ record' = record
          /\ artifacts' = artifacts
          /\ audio' = audio
          /\ pf_effects' = {}
          /\ stage_out' = ""]_vars

\* C27: the error field of the record an error handler of process_file persists
\* is the beginning of the failure message, the whole of it if it has at most
\* 240 characters and its first 240 characters otherwise.
C27_ErrorFieldBounded ==
    (lib_task \in {"transfer_error", "stage_error"} /\ error_rec.status = "error") =>
        /\ Len(error_rec.error) <= 240
        /\ Len(error_rec.error) <= Len(exc_message)
        /\ error_rec.error = SubSeq(exc_message, 1, Len(error_rec.error))
        /\ Len(exc_message) <= 240 => error_rec.error = exc_message

\* a message of more than 240 characters was cut to 240
C27_Witness ==
    /\ lib_task = "stage_error"
    /\ error_rec.status = "error"
    /\ Len(exc_message) > 240
    /\ Len(error_rec.error) = 240

\* C28: every call record in the store and every outcome the watcher has noted
\* in its processed dict has the status complete or error; so has every record
\* a call is about to return.
C28_StatusDomain ==
    /\ \A i \in CallIds :
          record[i] \notin {NoRecord, Corrupt} => record[i].status \in {"complete", "error"}
    /\ \A p \in Paths :
          processed[p] # NoEntry => processed[p].status \in {"complete", "error"}
    /\ pc = "return" => result.status \in {"complete", "error"}

\* the watcher has noted the outcome of a call that wrote a record in this run,
\* and the outcome of a call that returned the record of an earlier run
C28_Witness ==
    /\ \E p \in Paths, i \in CallIds :
          /\ processed[p].status = "error"
          /\ record[i].original_filename = p
    /\ \E p \in Paths : processed[p].status = "complete"

\* C29: a directory entry that is no regular file, or whose name begins with a
\* dot or holds the marker ".writetest-", or whose extension, in small letters,
\* is none of mp3, wav, m4a, aac, flac, ogg, is not submitted to process_file and
\* gets no size history (and with no submission, no processed entry).
C29_CandidateFilter ==
    (/\ lib_task = "filter"
     /\ visit_out.visited
     /\ \/ entry.kind # "file"
        \/ entry.name[1] = "."
        \/ \E i \in 1..(Len(entry.name) - 1) :
              entry.name[i] = "." /\ entry.name[i + 1] = "writetest-"
        \/ Len(entry.name) < 2
        \/ entry.name[Len(entry.name) - 1] # "."
        \/ entry.name[Len(entry.name)] \notin {"wav", "WAV"}) =>
        /\ ~visit_out.submitted
        /\ visit_out.history = <<>>

\* the loop body passed over a regular file named a.writetest-.wav, which only
\* the marker keeps out
C29_Witness ==
    /\ lib_task = "filter"
    /\ visit_out.visited
    /\ entry = [kind |-> "file", name |-> <<"a", ".", "writetest-", ".", "wav">>]
    /\ ~visit_out.submitted
    /\ visit_out.history = <<>>

\* C30 as stated: read_call reports not-found when the call has no record file
\* and returns the stored record whenever the file exists.
C30_ExistingFileReturned ==
    (lib_task \in {"store", "lookup"} /\ looked.out # "") =>
        /\ looked.file = NoFile => looked.out = "StoreError: call record not found"
        /\ looked.file # NoFile => (looked.out = "ok" /\ looked.record = looked.file.doc)

\* C30: read_call reports not-found when the call has no record file, returns
\* the stored record when the file holds a record that conforms to the
\* call_record schema, and returns no record that does not conform.
C30_RecordLookup ==
    (lib_task \in {"store", "lookup"} /\ looked.out # "") =>
        /\ looked.file = NoFile => looked.out = "StoreError: call record not found"
        /\ (/\ looked.file # NoFile
            /\ looked.file.len = DocChunks
            /\ {"id", "original_filename", "status"} \subseteq DOMAIN looked.file.doc) =>
              (looked.out = "ok" /\ looked.record = looked.file.doc)
        /\ looked.out = "ok" =>
              /\ looked.file # NoFile
              /\ {"id", "original_filename", "status"} \subseteq DOMAIN looked.record

\* read_call found a record file whose JSON object lacks the field status and
\* answered with the validation error
C30_Witness ==
    /\ lib_task = "lookup"
    /\ looked.file.len = DocChunks
    /\ "status" \notin DOMAIN looked.file.doc
    /\ looked.out = "StoreError: validation failed"

\* C31: every artifact a read path hands to its consumer conforms to the schema
\* named for it, and a stored document that does not conform is answered with
\* an error instead of being returned.
C31_ValidatedReads ==
    (lib_task = "serve" /\ served.via # "") =>
        /\ (served.out = "ok" /\ served.payload # NoRecord) =>
              Conforms(served.payload, SchemaNames[served.name])
        /\ (Complete(served.file) /\ ~Conforms(served.file.doc, SchemaNames[served.name])) =>
              served.out # "ok"

\* the tags of the calls, and their locations that are not blank, one per
\* occurrence
TagsIn(calls) == Concat([i \in 1..Len(calls) |-> calls[i].tags])
LocationsIn(calls) ==
    Concat([i \in 1..Len(calls) |->
               IF \A j \in 1..Len(calls[i].location) : calls[i].location[j] = " "
               THEN <<>> ELSE <<strip(calls[i].location)>>])

\* top lists at most three of the keys, each once and with the number of its
\* occurrences, and no key left out occurs more often than a key listed
ThreeMostFrequent(top, keys) ==
    LET Occ(k) == Cardinality({i \in 1..Len(keys) : keys[i] = k})
        listed == {top[i].key : i \in 1..Len(top)}
    IN  /\ Len(top) <= 3
        /\ Len(top) = 3 \/ listed = Range(keys)
        /\ Cardinality(listed) = Len(top)
        /\ \A i \in 1..Len(top) : top[i].n = Occ(top[i].key) /\ top[i].n > 0
        /\ \A k \in Range(keys) \ listed : \A i \in 1..Len(top) : Occ(k) <= top[i].n

\* C32: briefing returns the status, the calls and a summary together; for
\* calls the summary gives their number, the (at most) three most frequent tags
\* and the three most frequent locations that are not blank, each with its
\* count; for no calls it is "No calls in window.".
C32_BriefingSummary ==
    (lib_task = "brief" /\ brief_out # NotBriefed) =>
        /\ brief_out.status = brief_in.status
        /\ brief_out.calls = brief_in.calls
        /\ IF brief_in.calls = <<>>
           THEN brief_out.summary.text = "No calls in window."
           ELSE /\ brief_out.summary.text # "No calls in window."
                /\ brief_out.summary.calls = Len(brief_in.calls)
                /\ ThreeMostFrequent(brief_out.summary.top_tags, TagsIn(brief_in.calls))
                /\ ThreeMostFrequent(brief_out.summary.top_locations,
                                     LocationsIn(brief_in.calls))

\* a briefing over calls with four tags and four locations, where the tag listed
\* first is not the one met first
C32_Witness ==
    /\ lib_task = "brief"
    /\ brief_out # NotBriefed
    /\ Cardinality(Range(TagsIn(brief_in.calls))) = 4
    /\ Cardinality(Range(LocationsIn(brief_in.calls))) = 4
    /\ Len(brief_out.summary.top_tags) = 3
    /\ Len(brief_out.summary.top_locations) = 3
    /\ brief_out.summary.top_tags[1].key # TagsIn(brief_in.calls)[1]

\* C33: a path evicted after an error is submitted again only when at least
\* stable_polls sizes were appended to its history since the eviction, the
\* eviction poll's included, and the window holds that many sizes, all of them
\* the size of the submission: no size seen before the error is in the window.
C33_FreshWindowAfterError ==
    (pc = "resolve" /\ fresh[cur] > 0) =>
        /\ fresh[cur] >= stable_polls
        /\ Len(size_history[cur]) = stable_polls
        /\ \A i \in 1..stable_polls : size_history[cur][i] = cur_size

\* with a threshold of 2, the evicted path is submitted again with its new size
C33_Witness ==
    /\ pc = "resolve"
    /\ stable_polls = 2
    /\ fresh[cur] = 2
    /\ \E c \in Contents :
          /\ record[call_id_from_audio(c)].status = "error"
          /\ record[call_id_from_audio(c)].original_filename = cur
          /\ SizeOf(c) # cur_size

\* C34: the threshold in effect is always at least 1, no history is ever longer
\* than the threshold, and a poll that appends the size it sees leaves in the
\* history the latest sizes appended for the path, as many as the threshold
\* allows.
C34_BoundedWindow ==
    /\ [](/\ stable_polls >= 1
          /\ \A p \in Paths : Len(size_history[p]) <= stable_polls)
    /\ [][\A p \in Paths :
            (/\ pc = "visit" /\ p \in todo /\ p \notin todo'
             /\ pc' \in {"visit", "resolve"}
             /\ fs[p] # Absent /\ processed'[p] = NoEntry) =>
                LET all == Append(size_history[p], SizeOf(fs[p]))
                    from == IF Len(all) > stable_polls
                            THEN Len(all) - stable_polls + 1 ELSE 1
                IN  size_history'[p] = SubSeq(all, from, Len(all))]_vars

\* with a threshold of 2 the eviction poll appended a third size for the path and
\* the window dropped the oldest of them
C34_Witness ==
    /\ pc = "visit"
    /\ stable_polls = 2
    /\ \E p \in Paths \ todo :
          /\ fresh[p] = 1
          /\ processed[p] = NoEntry
          /\ Len(size_history[p]) = 2
          /\ size_history[p][1] # size_history[p][2]
          /\ size_history[p][2] = last_seen[p]

\* the positions in the log of the events of the given names
At(names) == {i \in 1..Len(events) : events[i].event \in names}

\* C35: watch_start is the first event of a run and only the first; while a call
\* of process_file is going on, the last event is the processing event of its
\* path; every processing event is followed, before the next one, by at most one
\* complete or error event, and by exactly one once its call has returned;
\* complete and error come only after a processing event; detected is emitted at
\* most once for a path; and shutdown is followed by no event.
C35_LifecycleOrder ==
    /\ events # <<>>
    /\ At({"watch_start"}) = {1}
    /\ InCall => events[Len(events)] = Event("processing", cur)
    /\ \A i \in At({"processing"}) :
          LET later == {j \in At({"processing"}) : j > i}
              outcomes == {k \in At({"complete", "error"}) :
                              i < k /\ \A j \in later : k < j}
          IN  /\ Cardinality(outcomes) <= 1
              /\ (later # {} \/ pc = "visit") => Cardinality(outcomes) = 1
    /\ \A k \in At({"complete", "error"}) : events[k - 1].event = "processing"
    /\ \A p \in Paths :
          Cardinality({i \in At({"detected"}) : events[i].path = p}) <= 1
    /\ \A i \in At({"shutdown"}) : i = Len(events)

\* a run that submitted one path twice and was then interrupted: one detected
\* event, two processing events with an error event after each, and shutdown
C35_Witness ==
    /\ pc = "stopped"
    /\ \E p \in Paths :
          /\ Cardinality({i \in At({"processing"}) : events[i].path = p}) = 2
          /\ Cardinality({i \in At({"detected"}) : events[i].path = p}) = 1
    /\ Cardinality(At({"error"})) = 2
    /\ events[Len(events)].event = "shutdown"

\* C36: every step of a store write before the rename, the interruption of the
\* write included, leaves every path but the ".tmp" sibling of the target as it
\* was; a text cut short is only ever found under the ".tmp" name; and no read
\* of another component, read_call included, takes a ".tmp" file or a text cut
\* short for a record or an artifact.
C36_InterruptedWrite ==
    /\ [](lib_task = "store" =>
            /\ \A f \in StoreFiles :
                  (disk[f] # NoFile /\ ~Complete(disk[f])) =>
                      \E g \in StoreFiles : f = g \o ".tmp"
            /\ \A g \in StoreFiles : seen.file # g \o ".tmp"
            /\ seen.content = NoFile \/ Complete(seen.content)
            /\ looked.out = "ok" => Complete(looked.file))
    /\ [][(/\ lib_task = "store"
           /\ w_pc # "idle"
           /\ ~(w_pc = "replace" /\ w_out' = "ok")) =>
              \A f \in StoreFiles :
                  disk'[f] # disk[f] => \E g \in StoreFiles : f = g \o ".tmp"]_vars

\* a write of a second record was interrupted half way: the ".tmp" file holds
\* half of the new text, and the reads made afterwards found the first record
C36_Witness ==
    /\ lib_task = "store"
    /\ w_pc = "idle"
    /\ w_out \in {"killed", "OSError"}
    /\ disk["call_record.json.tmp"].len = 1
    /\ Complete(disk["call_record.json"])
    /\ disk["call_record.json.tmp"].doc # disk["call_record.json"].doc
    /\ seen = [file |-> "call_record.json", content |-> disk["call_record.json"],
               at |-> "idle"]
    /\ looked.out = "ok"
    /\ looked.record = disk["call_record.json"].doc

\* C37: at most one transcribe_worker is queued or running for the file name at
\* any time, and no step submits a worker while one is queued or running or the
\* job is done.
C37_OneWorkerPerFile ==
    /\ [](lib_task = "queue" => pool.queued + pool.running <= 1)
    /\ [][(lib_task = "queue" /\ pool'.queued > pool.queued) =>
              (pool.queued + pool.running = 0 /\ job_row # "done")]_vars

\* the library functions, with the loop of wait_for_complete going on: time.sleep
\* returns and the thread is scheduled
WaitSpec == LibInit /\ [][LibNext]_vars /\ WF_vars(WaitCheck) /\ WF_vars(WaitTimeout)

\* C38: wait_for_complete makes at most max_wait/interval checks and returns;
\* it returns True only when its last three checks saw one size that is not 0
\* (two comparisons in a row without a change); a check that finds no file is
\* its last and it returns False; and it returns False otherwise only after
\* max_wait/interval checks.
C38_UploadWait ==
    /\ [](lib_task = "wait" =>
            LET n == Len(stats)
            IN  /\ n <= wait.limit
                /\ wait.out = "True" =>
                      /\ n >= 3
                      /\ stats[n] > 0
                      /\ stats[n] = stats[n - 1]
                      /\ stats[n - 1] = stats[n - 2]
                /\ \A i \in 1..n : stats[i] = -1 => (i = n /\ wait.out = "False")
                /\ wait.out = "False" => (stats[n] = -1 \/ n = wait.limit))
    /\ (lib_task = "wait") ~> (wait.out \in {"True", "False"})

\* a file that changed once and then kept its size: True at the fourth check
C38_Witness ==
    /\ lib_task = "wait"
    /\ wait.out = "True"
    /\ Len(stats) = 4
    /\ stats[1] # stats[2]

\* C39: for every text a documentation file may hold, with the markers or
\* without, applying the managed section to the text already written gives that
\* text again, so that docs_validate right after docs_all(write=True) reports
\* no change; and a text without markers is kept in front of the section (but for
\* the white space at its end).
C39_ManagedSectionIdempotent ==
    (lib_task = "docs" /\ doc.out # "") =>
        /\ (DOC_BEGIN \notin Range(doc.existing) /\ DOC_END \notin Range(doc.existing)) =>
              SubSeq(doc.once, 1, Len(rstrip(doc.existing))) = rstrip(doc.existing)
        /\ doc.out # "written" => (doc.twice = doc.once /\ doc.out = "ok")

====
